---- MODULE Spec2Model ----
(***************************************************************************)
(* Voxel terrain of aether-game-utils (src/src/aeTerrain.cpp): the chunk   *)
(* scheduler aeTerrain::Update with its job slots, chunk pool and vertex   *)
(* count map, and the surface extractor aeTerrainChunk::Generate.          *)
(*                                                                         *)
(* Scale.  The header aeTerrain.h is not part of the sources, so the       *)
(* compile-time constants are taken from the specification and scaled      *)
(* down: a chunk is kChunkSize = 2 voxels wide.  kMaxChunkVerts keeps the  *)
(* relation of the real constants, kMaxChunkVerts > kChunkSize^2 +         *)
(* 4*kChunkSize + 3 (the most vertices one voxel layer can produce, plus   *)
(* one quad), while dense fields still overflow it.                        *)
(*                                                                         *)
(* Lengths are integers.  Boxes (AABBs of shapes) are kept in half units   *)
(* so that a box face can lie between two sample points; every operator    *)
(* that takes a box says so.                                               *)
(***************************************************************************)
EXTENDS Integers, Sequences, FiniteSets, TLC

(***************************************************************************)
(* Compile-time constants (aeTerrain.h, scaled)                            *)
(***************************************************************************)
kChunkSize == 2
kMaxChunkVerts == 16
kMaxChunkIndices == 30
kMaxLoadedChunks == 2
kSdfBoundary == 1
kChunkCountEmpty == 0
kChunkCountInterior == 65534
kChunkCountDirty == 65535
kInvalidTerrainIndex == 65535

(***************************************************************************)
(* Bounds of the exploration                                               *)
(***************************************************************************)
MaxThreads == 2
MaxShapes == 1

(***************************************************************************)
(* aeInt3 arithmetic                                                       *)
(***************************************************************************)
Add3(a, b) == <<a[1] + b[1], a[2] + b[2], a[3] + b[3]>>
Scale3(a, k) == <<a[1] * k, a[2] * k, a[3] * k>>
Max2(a, b) == IF a >= b THEN a ELSE b
Min2(a, b) == IF a <= b THEN a ELSE b
Abs(a) == IF a >= 0 THEN a ELSE -a
FloorDiv(a, b) == a \div b
CeilDiv(a, b) == -((-a) \div b)

RECURSIVE SetMin(_)
SetMin(S) ==
  LET x == CHOOSE y \in S : TRUE
  IN IF S = {x} THEN x ELSE Min2(x, SetMin(S \ {x}))

\* a key that folds the negative coordinates onto the positive ones
GetIndexFolded(pos) ==
  LET x == IF pos[1] >= 0 THEN 2 * pos[1] ELSE -2 * pos[1]
      y == IF pos[2] >= 0 THEN 2 * pos[2] ELSE -2 * pos[2]
      z == IF pos[3] >= 0 THEN 2 * pos[3] ELSE -2 * pos[3]
      max == Max2(x, Max2(y, z))
      h0 == max * max * max + (2 * max * z) + z
      h1 == IF max = z THEN h0 + Max2(x, y) * Max2(x, y) ELSE h0
      h2 == IF y >= x THEN h1 + x + y ELSE h1 + y
  IN h2

\* aeTerrainChunk::GetIndex: the key of a chunk coordinate in the maps.  The
\* uint32_t arithmetic does not wrap for the coordinates of this model (the
\* hash stays far below 2^31)
GetIndex(pos) ==
  LET x == IF pos[1] >= 0 THEN 2 * pos[1] ELSE -2 * pos[1] - 1
      y == IF pos[2] >= 0 THEN 2 * pos[2] ELSE -2 * pos[2] - 1
      z == IF pos[3] >= 0 THEN 2 * pos[3] ELSE -2 * pos[3] - 1
      max == Max2(x, Max2(y, z))
      h0 == max * max * max + (2 * max * z) + z
      h1 == IF max = z THEN h0 + Max2(x, y) * Max2(x, y) ELSE h0
      h2 == IF y >= x THEN h1 + x + y ELSE h1 + y
  IN h2

(***************************************************************************)
(* The signed distance field.  A field is a set of boxes (the live shapes, *)
(* folded by union); a box is [min, max] in half units.  The value is the  *)
(* signed Chebyshev distance in half units: negative inside, zero on the   *)
(* faces, positive outside.                                                *)
(***************************************************************************)
BoxValue(b, p) ==
  LET d(i) == Max2(b.min[i] - 2 * p[i], 2 * p[i] - b.max[i])
  IN Max2(d(1), Max2(d(2), d(3)))

\* aeTerrainSDFCache::GetValue( aeInt3 ): the cached sample at a grid point
SdfGetValue(field, p) ==
  IF field = {} THEN 1 ELSE SetMin({BoxValue(b, p) : b \in field})

\* aeTerrainSDFCache::GetValue( aeFloat3 ) at a voxel centre: trilinear
\* interpolation of the 8 cached corners with equal weights; only the sign
\* is used, so the sum stands for the mean
SdfGetValueCenter(field, p) ==
  LET c == {<<i, j, k>> : i \in 0..1, j \in 0..1, k \in 0..1}
      v(o) == SdfGetValue(field, Add3(p, o))
      RECURSIVE Sum(_)
      Sum(S) == IF S = {} THEN 0
                ELSE LET o == CHOOSE q \in S : TRUE IN v(o) + Sum(S \ {o})
  IN Sum(c)

(***************************************************************************)
(* aeTerrainChunk::Generate, first phase (surface quads)                   *)
(***************************************************************************)
InChunk(v) ==
  /\ v[1] >= 0 /\ v[2] >= 0 /\ v[3] >= 0
  /\ v[1] < kChunkSize /\ v[2] < kChunkSize /\ v[3] < kChunkSize

ChunkVoxels == {<<x, y, z>> : x \in 0..(kChunkSize - 1), y \in 0..(kChunkSize - 1),
                              z \in 0..(kChunkSize - 1)}

\* the scan order of the three nested loops: z outermost, x innermost
kTempChunkSize == kChunkSize + 2
VoxelCount == kTempChunkSize * kTempChunkSize * kTempChunkSize
VoxelAt(n) ==
  <<((n - 1) % kTempChunkSize) - 1,
    (((n - 1) \div kTempChunkSize) % kTempChunkSize) - 1,
    ((n - 1) \div (kTempChunkSize * kTempChunkSize)) - 1>>

cornerOffsets ==
  <<  << <<0, 1, 1>>, <<1, 1, 1>> >>,
      << <<1, 0, 1>>, <<1, 1, 1>> >>,
      << <<1, 1, 0>>, <<1, 1, 1>> >>  >>

\* aeTerrainChunk::m_GetQuadVertexOffsetsFromEdge for the three tested edges
m_GetQuadVertexOffsetsFromEdge ==
  <<  << <<0, 0, 0>>, <<0, 1, 0>>, <<0, 0, 1>>, <<0, 1, 1>> >>,
      << <<0, 0, 0>>, <<1, 0, 0>>, <<0, 0, 1>>, <<1, 0, 1>> >>,
      << <<0, 0, 0>>, <<0, 1, 0>>, <<1, 0, 0>>, <<1, 1, 0>> >>  >>

\* state of one Generate call: the counters, the chunk's m_i and m_t, the
\* two output arrays (a vertex is named by its voxel), the materials of the
\* vertices, the out parameters; full records that the call returned from
\* the capacity test
GenStart ==
  [ vertexCount |-> 0, indexCount |-> 0,
    m_i |-> [v \in ChunkVoxels |-> kInvalidTerrainIndex],
    m_t |-> [v \in ChunkVoxels |-> "Exterior"],
    verticesOut |-> << >>, indexOut |-> << >>, materials |-> << >>,
    returned |-> FALSE, full |-> FALSE,
    vertexCountOut |-> kChunkCountEmpty, indexCountOut |-> 0 ]

\* no capacity test
GenHasRoomAlways(vertexCount, indexCount) == TRUE

\* the capacity test in front of every sign-changing edge
GenHasRoom(vertexCount, indexCount) ==
  ~(vertexCount + 4 > kMaxChunkVerts \/ indexCount + 6 > kMaxChunkIndices)

\* a quad corner whose new index is taken after the count is incremented
GenQuadVertexLate(acc, o) ==
  IF (~InChunk(o)) \/ acc.g.m_i[o] = kInvalidTerrainIndex
  THEN [ g |-> [acc.g EXCEPT
                  !.verticesOut = Append(@, o),
                  !.vertexCount = @ + 1,
                  !.m_i = IF InChunk(o)
                          THEN [@ EXCEPT ![o] = (acc.g.vertexCount + 1) % 65536] ELSE @,
                  !.m_t = IF InChunk(o) THEN [@ EXCEPT ![o] = "Surface"] ELSE @],
         ind |-> Append(acc.ind, (acc.g.vertexCount + 1) % 65536) ]
  ELSE [ g |-> acc.g, ind |-> Append(acc.ind, acc.g.m_i[o]) ]

\* one of the four quad corners: a new vertex, or the voxel's existing one
GenQuadVertex(acc, o) ==
  IF (~InChunk(o)) \/ acc.g.m_i[o] = kInvalidTerrainIndex
  THEN LET index == acc.g.vertexCount % 65536
       IN [ g |-> [acc.g EXCEPT
                     !.verticesOut = Append(@, o),
                     !.vertexCount = @ + 1,
                     !.m_i = IF InChunk(o) THEN [@ EXCEPT ![o] = index] ELSE @,
                     !.m_t = IF InChunk(o) THEN [@ EXCEPT ![o] = "Surface"] ELSE @],
            ind |-> Append(acc.ind, index) ]
  ELSE [ g |-> acc.g, ind |-> Append(acc.ind, acc.g.m_i[o]) ]

\* two triangles of which the second repeats a corner
GenQuadDegenerate(acc, flip) ==
  [acc.g EXCEPT
     !.indexOut = @ \o <<acc.ind[1], acc.ind[2], acc.ind[3],
                         acc.ind[2], acc.ind[3], acc.ind[3]>>,
     !.indexCount = @ + 6]

\* the two triangles over the four indices of the quad
GenQuad(acc, flip) ==
  [acc.g EXCEPT
     !.indexOut = @ \o (IF flip
                        THEN <<acc.ind[1], acc.ind[2], acc.ind[3],
                               acc.ind[2], acc.ind[4], acc.ind[3]>>
                        ELSE <<acc.ind[1], acc.ind[3], acc.ind[2],
                               acc.ind[2], acc.ind[3], acc.ind[4]>>),
     !.indexCount = @ + 6]

\* a return from the capacity test that reports the counts reached
GenAbortKeep(g) ==
  [g EXCEPT !.returned = TRUE, !.full = TRUE,
            !.vertexCountOut = g.vertexCount, !.indexCountOut = g.indexCount]

\* the return from the capacity test: both out parameters are 0
GenAbort(g) ==
  [g EXCEPT !.returned = TRUE, !.full = TRUE,
            !.vertexCountOut = 0, !.indexCountOut = 0]

\* one edge e (1..3) of voxel v: capacity test, then the quad
GenEdge(g, v, e, crossing, c21) ==
  IF g.returned \/ ~crossing THEN g
  ELSE IF ~GenHasRoom(g.vertexCount, g.indexCount)
  THEN GenAbort(g)
  ELSE IF ~InChunk(v) THEN g
  ELSE GenQuad(
         GenQuadVertex(
           GenQuadVertex(
             GenQuadVertex(
               GenQuadVertex([g |-> g, ind |-> << >>],
                             Add3(v, m_GetQuadVertexOffsetsFromEdge[e][1])),
               Add3(v, m_GetQuadVertexOffsetsFromEdge[e][2])),
             Add3(v, m_GetQuadVertexOffsetsFromEdge[e][3])),
           Add3(v, m_GetQuadVertexOffsetsFromEdge[e][4])),
         IF e = 1 THEN c21 > 0 ELSE c21 < 0)

\* cornerValues[ e ][ j ] of voxel v: the sample, nudged off zero
Nudge(value) == IF value = 0 THEN 1 ELSE value

cornerValues(field, pos, v, e, j) ==
  Nudge(SdfGetValue(field, Add3(Add3(Scale3(pos, kChunkSize), v), cornerOffsets[e][j])))

\* the bit of edge e in edgeBits: the two corner values differ in sign
EdgeBit(field, pos, v, e) ==
  cornerValues(field, pos, v, e, 1) * cornerValues(field, pos, v, e, 2) <= 0

edgeBits(field, pos, v) == {e \in 1..3 : EdgeBit(field, pos, v, e)}

\* a classification that does not look at the voxel's index
GenClassifyAlways(g, v, field, pos) ==
  IF InChunk(v)
  THEN [g EXCEPT !.m_t[v] =
          IF SdfGetValueCenter(field, Add3(Scale3(pos, kChunkSize), v)) > 0
          THEN "Exterior" ELSE "Interior"]
  ELSE g

\* a voxel without a sign-changing edge: in the chunk and without a vertex
\* it is classified by the value at its centre
GenClassify(g, v, field, pos) ==
  IF InChunk(v) /\ g.m_i[v] = kInvalidTerrainIndex
  THEN [g EXCEPT !.m_t[v] =
          IF SdfGetValueCenter(field, Add3(Scale3(pos, kChunkSize), v)) > 0
          THEN "Exterior" ELSE "Interior"]
  ELSE g

\* edge e of voxel v, whatever its bit
GenVoxelEdge(g, v, e, field, pos) ==
  GenEdge(g, v, e, EdgeBit(field, pos, v, e), cornerValues(field, pos, v, 3, 2))

\* one iteration of the voxel loop
GenVoxel(g, v, field, pos) ==
  IF g.returned THEN g
  ELSE IF edgeBits(field, pos, v) = {} THEN GenClassify(g, v, field, pos)
  ELSE GenVoxelEdge(GenVoxelEdge(GenVoxelEdge(g, v, 1, field, pos), v, 2, field, pos),
                    v, 3, field, pos)

\* the vertex loop after the first phase, for the material tag the SDF
\* gives at the vertices: each of the four channels is 255 where the tag is
\* the channel's number; a chunk without triangles has returned before
GenVertices(g, material) ==
  IF g.returned \/ g.indexCount = 0 THEN g
  ELSE [g EXCEPT !.materials =
          [i \in 1..g.vertexCount |->
             [c \in 0..3 |-> IF material = c THEN 255 ELSE 0]]]

\* the end of the first phase: a chunk without triangles reports Empty
GenFinish(g) ==
  IF g.returned THEN g
  ELSE IF g.indexCount = 0
  THEN [g EXCEPT !.returned = TRUE, !.vertexCountOut = kChunkCountEmpty,
                 !.indexCountOut = 0]
  ELSE [g EXCEPT !.returned = TRUE, !.vertexCountOut = g.vertexCount,
                 !.indexCountOut = g.indexCount]

\* the voxel loop from voxel n on; GenNext continues after voxel n
RECURSIVE GenLoop(_, _, _, _)
GenNext(g, n, field, pos) ==
  IF g.returned THEN g ELSE GenLoop(g, n + 1, field, pos)

GenLoop(g, n, field, pos) ==
  IF n > VoxelCount THEN GenFinish(g)
  ELSE GenNext(GenVoxel(g, VoxelAt(n), field, pos), n, field, pos)

Generate(field, pos) == GenLoop(GenStart, 1, field, pos)

(***************************************************************************)
(* Inputs of the exploration: the boxes a shape can take (half units), the *)
(* viewer positions and the view radius.  With this centre and radius      *)
(* kChunkSize the chunks <<0, 0, 0>> and <<1, 0, 0>> are in view.  A box    *)
(* takes one of the Intervals on each axis; the interval <<1, 2>> holds no *)
(* grid point, so a box with it leaves every sample outside.  BigBox holds *)
(* chunk 0 and its halo; RodBox crosses more voxels of chunk 0 than its    *)
(* buffers can take.                                                       *)
(***************************************************************************)
Intervals == << <<-3, 7>>, <<1, 3>>, <<1, 7>>, <<1, 2>> >>
IntervalCount == Len(Intervals)
BoxTable ==
  [ n \in 1..(IntervalCount * IntervalCount * IntervalCount) |->
      LET ix == Intervals[((n - 1) % IntervalCount) + 1]
          iy == Intervals[(((n - 1) \div IntervalCount) % IntervalCount) + 1]
          iz == Intervals[((n - 1) \div (IntervalCount * IntervalCount)) + 1]
      IN [min |-> <<ix[1], iy[1], iz[1]>>, max |-> <<ix[2], iy[2], iz[2]>>] ]
BigBox == [min |-> <<-3, -3, -3>>, max |-> <<7, 7, 7>>]
RodBox == [min |-> <<1, 1, 1>>, max |-> <<7, 3, 3>>]
\* the boxes of the scheduler's exploration, and those of the extractor's
BoxIds == {n \in DOMAIN BoxTable : BoxTable[n] \in {BigBox, RodBox}}
GenBoxIds == DOMAIN BoxTable
\* the material tags (uint8_t) the SDF may give for a vertex
MaterialTags == {0, 3, 4}
ViewCenters == {<<2, 1, 1>>}
ViewRadii == {kChunkSize}
\* the viewer that settles: it starts at StartCenter (chunks <<-2, 0, 0>>
\* and <<-1, 0, 0>> in view) and stays where it is once it is at one of the
\* SettleCenters: NearCenter has chunks <<0, 0, 0>> and <<1, 0, 0>> in
\* view, WideCenter also <<0, 1, 0>> and <<1, 1, 0>>, three of which cross
\* the surface of BigBox
StartCenter == <<-2, 1, 1>>
NearCenter == <<2, 1, 1>>
WideCenter == <<2, 2, 1>>
SettleCenters == {NearCenter, WideCenter}
ShapeIds == 1..MaxShapes

VARIABLES
  m_vertexCounts,   \* std::map chunk index -> VertexCount (absent = Empty)
  m_chunks3,        \* std::map chunk index -> chunk (the chunk store)
  m_chunkPool,      \* the pool of chunk records
  chunks,           \* the allocated chunk records, by handle
  m_generatedList,  \* the published chunks
  m_terrainJobs,    \* the job slots
  sdf,              \* the shapes of aeTerrainSDF and their pending edits
  m_threadPool,     \* the worker pool
  frame,            \* what the Update that has just returned observed at its idle test
  aborted,          \* an AE_ASSERT has failed
  m_center,         \* the viewer position of the last Update
  gen,              \* a Generate call run voxel by voxel
  result,           \* the RaycastResult of the last raycast
  array,            \* an ae::Array< int > with dynamic storage
  call,             \* the last member function called on array and what it returned
  calls             \* the parity of the number of Update calls a counting caller has made

vars == <<m_vertexCounts, m_chunks3, m_chunkPool, chunks, m_generatedList,
          m_terrainJobs, sdf, m_threadPool, frame, aborted, m_center, gen, result,
          array, call, calls>>

schedVars == <<m_vertexCounts, m_chunks3, m_chunkPool, chunks, m_generatedList,
               m_terrainJobs, sdf, m_threadPool, frame, aborted, m_center>>

(***************************************************************************)
(* std::map                                                                *)
(***************************************************************************)
MapSet(m, k, v) == [x \in (DOMAIN m) \cup {k} |-> IF x = k THEN v ELSE m[x]]
MapErase(m, k) == [x \in (DOMAIN m) \ {k} |-> m[x]]
EmptyMap == [x \in {} |-> 0]

(***************************************************************************)
(* ae::OpaquePool (src/unnamed/part_000).  A page is its id and the set of *)
(* allocated element indices; the first page has id 0.  The handle of      *)
(* element index of page id is id * m_pageSize + index + 1; 0 is nullptr.  *)
(***************************************************************************)
m_pageSize == kMaxLoadedChunks
m_paged == FALSE

PageHasFree(page) == Cardinality(page.used) < m_pageSize

FirstPageWithFree(pages) ==
  IF \E i \in DOMAIN pages : PageHasFree(pages[i])
  THEN CHOOSE i \in DOMAIN pages :
         PageHasFree(pages[i]) /\ \A k \in 1..(i - 1) : ~PageHasFree(pages[k])
  ELSE 0

\* an Allocate that adds a page whether or not the pool is paged
PoolGrowPaged(pool, ids) ==
  IF FirstPageWithFree(pool.m_pages) # 0 THEN pool.m_pages
  ELSE Append(pool.m_pages,
         [id |-> CHOOSE n \in 0..(Len(pool.m_pages) + 1) : n \notin ids, used |-> {}])

\* the pages after Allocate has added a page where it may
PoolGrow(pool, ids) ==
  IF FirstPageWithFree(pool.m_pages) # 0 THEN pool.m_pages
  ELSE IF 0 \notin ids
  THEN Append(pool.m_pages, [id |-> 0, used |-> {}])
  ELSE IF m_paged
  THEN Append(pool.m_pages,
         [id |-> CHOOSE n \in 1..(Len(pool.m_pages) + 1) : n \notin ids, used |-> {}])
  ELSE pool.m_pages

\* the free list of a page hands out its lowest free index
PageAllocate(page) ==
  CHOOSE n \in 0..(m_pageSize - 1) : n \notin page.used /\ \A k \in 0..(n - 1) : k \in page.used

PoolTake(pool, grown, at, index) ==
  [ pool |-> [m_pages |-> [grown EXCEPT ![at].used = @ \cup {index}],
              m_length |-> pool.m_length + 1],
    obj |-> grown[at].id * m_pageSize + index + 1 ]

PoolAllocateIn(pool, grown, at) ==
  IF at = 0 THEN [pool |-> pool, obj |-> 0]
  ELSE PoolTake(pool, grown, at, PageAllocate(grown[at]))

PoolAllocateFrom(pool, grown) == PoolAllocateIn(pool, grown, FirstPageWithFree(grown))

\* OpaquePool::Allocate: [pool, obj], obj = 0 when nothing could be allocated
PoolAllocate(pool) ==
  PoolAllocateFrom(pool, PoolGrow(pool, {pool.m_pages[i].id : i \in DOMAIN pool.m_pages}))

\* OpaquePool::Free
PoolFree(pool, obj) ==
  LET id == (obj - 1) \div m_pageSize
      index == (obj - 1) % m_pageSize
      at == IF \E i \in DOMAIN pool.m_pages : pool.m_pages[i].id = id
            THEN CHOOSE i \in DOMAIN pool.m_pages : pool.m_pages[i].id = id
            ELSE 0
  IN IF obj = 0 \/ at = 0 THEN pool
     ELSE LET used == pool.m_pages[at].used \ {index}
              freed == [pool.m_pages EXCEPT ![at].used = used]
          IN [ m_pages |-> IF used = {}
                           THEN SelectSeq(freed, LAMBDA pg : pg.id # id)
                           ELSE freed,
               m_length |-> pool.m_length - 1 ]

PoolEmpty == [m_pages |-> << >>, m_length |-> 0]

(***************************************************************************)
(* The terrain as one record t, so that the steps of a handler can be      *)
(* chained: vc = m_vertexCounts, ch3 = m_chunks3, pool = m_chunkPool,      *)
(* chunks, gl = m_generatedList, jobs = m_terrainJobs, sdf,                *)
(* tp = m_threadPool, aborted.  A chunk record is [m_pos, m_geoDirty,      *)
(* m_vertices, m_t]; m_vertices is the length of the vertex array,         *)
(* 0 = nullptr; m_t is the class of every voxel.                           *)
(***************************************************************************)
Terrain ==
  [ vc |-> m_vertexCounts, ch3 |-> m_chunks3, pool |-> m_chunkPool,
    chunks |-> chunks, gl |-> m_generatedList, jobs |-> m_terrainJobs,
    sdf |-> sdf, tp |-> m_threadPool, aborted |-> aborted ]

\* aeTerrain::GetVertexCount( uint32_t chunkIndex )
GetVertexCount(t, chunkIndex) ==
  IF chunkIndex \in DOMAIN t.vc THEN t.vc[chunkIndex] ELSE kChunkCountEmpty

\* aeTerrain::GetChunk( uint32_t chunkIndex ), 0 = nullptr
GetChunk(t, chunkIndex) ==
  IF chunkIndex \in DOMAIN t.ch3 THEN t.ch3[chunkIndex] ELSE 0

\* the operators / and % of int32_t: the quotient is truncated towards 0
\* and the remainder has the sign of the dividend
TruncDiv(a, b) == IF a >= 0 THEN a \div b ELSE -((-a) \div b)
Rem(a, b) == a - b * TruncDiv(a, b)

\* a chunk coordinate by integer division
ChunkPosOfTrunc(pos) ==
  <<TruncDiv(pos[1], kChunkSize), TruncDiv(pos[2], kChunkSize), TruncDiv(pos[3], kChunkSize)>>

\* aeTerrainChunk::GetPosFromWorld: the chunk coordinate of the voxel at
\* the world position pos, and the voxel's position in that chunk
ChunkPosOf(pos) ==
  <<FloorDiv(pos[1], kChunkSize), FloorDiv(pos[2], kChunkSize), FloorDiv(pos[3], kChunkSize)>>

LocalPosOf(pos) ==
  <<Rem(pos[1] - ChunkPosOf(pos)[1] * kChunkSize, kChunkSize),
    Rem(pos[2] - ChunkPosOf(pos)[2] * kChunkSize, kChunkSize),
    Rem(pos[3] - ChunkPosOf(pos)[3] * kChunkSize, kChunkSize)>>

\* GetVoxel without the answer Unloaded
GetVoxelNeverUnloaded(t, vc, chunk, localPos) ==
  IF vc = kChunkCountEmpty \/ vc = kChunkCountDirty THEN "Exterior"
  ELSE IF vc = kChunkCountInterior THEN "Interior"
  ELSE IF chunk = 0 THEN "Exterior"
  ELSE t.chunks[chunk].m_t[localPos]

\* aeTerrain::GetVoxel( int32_t x, int32_t y, int32_t z ) from the vertex
\* count on: vc = GetVertexCount( ci ), chunk = GetChunk( ci )
GetVoxelOf(t, vc, chunk, localPos) ==
  IF vc = kChunkCountEmpty THEN "Exterior"
  ELSE IF vc = kChunkCountDirty THEN "Unloaded"
  ELSE IF vc = kChunkCountInterior THEN "Interior"
  ELSE IF chunk = 0 THEN "Unloaded"
  ELSE t.chunks[chunk].m_t[localPos]

GetVoxelIn(t, ci, localPos) ==
  GetVoxelOf(t, GetVertexCount(t, ci), GetChunk(t, ci), localPos)

GetVoxel(t, pos) == GetVoxelIn(t, GetIndex(ChunkPosOf(pos)), LocalPosOf(pos))

\* the AE_ASSERT of m_SetVertexCount
SetVertexCountOk(count) ==
  count = kChunkCountDirty \/ count = kChunkCountInterior \/ count < kMaxChunkVerts

\* aeTerrain::m_SetVertexCount
m_SetVertexCount(t, chunkIndex, count) ==
  IF ~SetVertexCountOk(count) THEN [t EXCEPT !.aborted = TRUE]
  ELSE IF count = kChunkCountEmpty
  THEN [t EXCEPT !.vc = MapErase(@, chunkIndex)]
  ELSE [t EXCEPT !.vc = MapSet(@, chunkIndex, count)]

\* aeTerrain::AllocChunk: [t, chunk]; the pool constructs the record
\* (aeTerrainChunk::aeTerrainChunk: m_geoDirty false, m_vertices null, m_t
\* zeroed)
AllocChunkAt(t, pos, a) ==
  IF a.obj = 0 THEN [t |-> t, chunk |-> 0]
  ELSE [ t |-> [t EXCEPT
                  !.pool = a.pool,
                  !.chunks = MapSet(@, a.obj,
                               [m_pos |-> pos, m_geoDirty |-> FALSE, m_vertices |-> 0,
                                m_t |-> GenStart.m_t])],
         chunk |-> a.obj ]

AllocChunk(t, pos) == AllocChunkAt(t, pos, PoolAllocate(t.pool))

\* a FreeChunk that clears the coordinate's entry whatever it refers to
FreeChunkAlways(t, chunk) ==
  [t EXCEPT
     !.ch3 = MapErase(@, GetIndex(t.chunks[chunk].m_pos)),
     !.chunks = MapErase(@, chunk),
     !.gl = @ \ {chunk},
     !.pool = PoolFree(@, chunk)]

\* aeTerrain::FreeChunk; destroying the record unlinks it from the
\* generated list
FreeChunk(t, chunk) ==
  LET chunkIndex == GetIndex(t.chunks[chunk].m_pos)
  IN [t EXCEPT
        !.ch3 = IF GetChunk(t, chunkIndex) = chunk THEN MapErase(@, chunkIndex) ELSE @,
        !.chunks = MapErase(@, chunk),
        !.gl = @ \ {chunk},
        !.pool = PoolFree(@, chunk)]

\* aeTerrainChunk::GetAABB in half units
ChunkAABB(pos) ==
  [ min |-> Scale3(pos, 2 * kChunkSize),
    max |-> Add3(Scale3(pos, 2 * kChunkSize),
                 <<2 * kChunkSize, 2 * kChunkSize, 2 * kChunkSize>>) ]

\* aeAABB::Expand by a world length
Expand(aabb, boundary) ==
  [ min |-> Add3(aabb.min, <<-2 * boundary, -2 * boundary, -2 * boundary>>),
    max |-> Add3(aabb.max, <<2 * boundary, 2 * boundary, 2 * boundary>>) ]

\* the loops of m_Dirty over the AABB without its halo
DirtyRangeNoHalo(aabb) ==
  LET minChunk == [i \in 1..3 |-> FloorDiv(aabb.min[i], 2 * kChunkSize)]
      maxChunk == [i \in 1..3 |-> CeilDiv(aabb.max[i], 2 * kChunkSize)]
  IN {<<x, y, z>> : x \in minChunk[1]..(maxChunk[1] - 1),
                    y \in minChunk[2]..(maxChunk[2] - 1),
                    z \in minChunk[3]..(maxChunk[3] - 1)}

\* the chunk coordinates the loops of m_Dirty visit
DirtyRange(aabb) ==
  LET e == Expand(aabb, kSdfBoundary)
      minChunk == [i \in 1..3 |-> FloorDiv(e.min[i], 2 * kChunkSize)]
      maxChunk == [i \in 1..3 |-> CeilDiv(e.max[i], 2 * kChunkSize)]
  IN {<<x, y, z>> : x \in minChunk[1]..(maxChunk[1] - 1),
                    y \in minChunk[2]..(maxChunk[2] - 1),
                    z \in minChunk[3]..(maxChunk[3] - 1)}

\* an m_Dirty that sets m_geoDirty on every record of a coordinate in the
\* range, in the store or not
m_DirtyAll(t, aabb) ==
  LET range == DirtyRange(aabb)
      missing == {GetIndex(pos) : pos \in {q \in range : GetChunk(t, GetIndex(q)) = 0}}
  IN [t EXCEPT
        !.chunks = [h \in DOMAIN @ |->
                      IF @[h].m_pos \in range THEN [@[h] EXCEPT !.m_geoDirty = TRUE]
                      ELSE @[h]],
        !.vc = [k \in (DOMAIN @) \cup missing |->
                  IF k \in missing THEN kChunkCountDirty ELSE @[k]]]

\* aeTerrain::m_Dirty: an existing chunk gets m_geoDirty, a coordinate
\* without a chunk gets the Dirty sentinel
m_Dirty(t, aabb) ==
  LET range == DirtyRange(aabb)
      stored == {GetChunk(t, GetIndex(pos)) : pos \in range} \ {0}
      missing == {GetIndex(pos) : pos \in {q \in range : GetChunk(t, GetIndex(q)) = 0}}
  IN [t EXCEPT
        !.chunks = [h \in DOMAIN @ |->
                      IF h \in stored THEN [@[h] EXCEPT !.m_geoDirty = TRUE] ELSE @[h]],
        !.vc = [k \in (DOMAIN @) \cup missing |->
                  IF k \in missing THEN kChunkCountDirty ELSE @[k]]]

(***************************************************************************)
(* aeTerrainJob                                                            *)
(***************************************************************************)
JobNew ==
  [ m_hasJob |-> FALSE, m_running |-> FALSE, m_chunk |-> 0,
    m_vertexCount |-> kChunkCountEmpty, m_indexCount |-> 0 ]

HasJob(job) == job.m_hasJob
IsPendingFinish(job) == job.m_hasJob /\ ~job.m_running
HasChunk(t, job, pos) == job.m_chunk # 0 /\ t.chunks[job.m_chunk].m_pos = pos

\* the AE_ASSERTs of aeTerrainJob::StartNew and aeTerrainJob::Finish
StartNewOk(job, chunk) == chunk # 0 /\ job.m_chunk = 0
FinishOk(job) == job.m_chunk # 0 /\ ~job.m_running

StartNew(job, chunk) ==
  [ m_hasJob |-> TRUE, m_running |-> TRUE, m_chunk |-> chunk,
    m_vertexCount |-> kChunkCountEmpty, m_indexCount |-> 0 ]

Finish(job) == JobNew

(***************************************************************************)
(* aeTerrainSDF.  A shape slot is [state, aabb, m_aabbPrev, m_dirty] with  *)
(* aabb and m_aabbPrev indices of BoxTable.  Created and destroyed shapes  *)
(* wait in the pending lists until UpdatePending; a shape in the shape     *)
(* list is "live" or "pendingDestroy".                                     *)
(***************************************************************************)
ShapeNone == [state |-> "none", aabb |-> 0, m_aabbPrev |-> 0, m_dirty |-> FALSE]
InShapeList(shape) == shape.state \in {"live", "pendingDestroy"}
HasPending(s) == \E i \in ShapeIds : s[i].state \in {"pendingCreate", "pendingDestroy"}

\* the field the jobs sample: the union of the shapes in the shape list
Field(s) == {BoxTable[s[i].aabb] : i \in {k \in ShapeIds : InShapeList(s[k])}}

\* aeTerrainSDF::UpdatePending: created shapes enter the shape list dirty,
\* destroyed shapes leave it and their last AABB is dirtied
RECURSIVE UpdatePendingFrom(_, _)
UpdatePendingFrom(t, i) ==
  IF i > MaxShapes THEN t
  ELSE LET shape == t.sdf[i]
       IN IF shape.state = "pendingCreate"
          THEN UpdatePendingFrom(
                 [t EXCEPT !.sdf[i] = [shape EXCEPT !.state = "live", !.m_dirty = TRUE]],
                 i + 1)
          ELSE IF shape.state = "pendingDestroy"
          THEN UpdatePendingFrom(
                 [m_Dirty(t, BoxTable[shape.m_aabbPrev]) EXCEPT !.sdf[i] = ShapeNone],
                 i + 1)
          ELSE UpdatePendingFrom(t, i + 1)

UpdatePending(t) == UpdatePendingFrom(t, 1)

(***************************************************************************)
(* The worker pool (ctpl): size threads; queued = the job slots whose      *)
(* pushed task has not completed.  A thread is idle when it has no task.   *)
(***************************************************************************)
n_idle(tp) == tp.size - Cardinality(tp.queued)

\* the out parameters of Generate and the classes it has written to the
\* chunk
GenOut(g) ==
  [vertexCountOut |-> g.vertexCountOut, indexCountOut |-> g.indexCountOut, m_t |-> g.m_t]

GenerateOut(field, pos) == GenOut(Generate(field, pos))

\* Generate for the fields and the chunk coordinates the scheduler meets,
\* computed once
JobFields == {{BoxTable[b] : b \in B} : B \in {X \in SUBSET BoxIds : Cardinality(X) <= MaxShapes}}
JobPositions == {<<x, y, z>> : x \in -2..1, y \in 0..1, z \in 0..1}
GenerateTable == {[field |-> f, pos |-> p, out |-> GenerateOut(f, p)] :
                    f \in JobFields, p \in JobPositions}
GenerateLookup(field, pos) ==
  (CHOOSE r \in GenerateTable : r.field = field /\ r.pos = pos).out

\* the end of aeTerrainJob::Do: the counts are stored, m_running is cleared
DoStore(job, out) ==
  [job EXCEPT !.m_running = FALSE,
              !.m_vertexCount = out.vertexCountOut,
              !.m_indexCount = out.indexCountOut]

\* Generate has written into the job's chunk and the job has its counts
DoChunk(t, j, out) ==
  [t EXCEPT !.jobs[j] = DoStore(@, out),
            !.chunks[t.jobs[j].m_chunk].m_t = out.m_t]

\* aeTerrainJob::Do on the field of the moment
Do(t, j) ==
  DoChunk(t, j, GenerateLookup(Field(t.sdf), t.chunks[t.jobs[j].m_chunk].m_pos))

(***************************************************************************)
(* aeTerrain::Update, by phases                                            *)
(***************************************************************************)
\* the dirty phase: every dirty shape of the shape list dirties its
\* previous and its current AABB, then is clean with m_aabbPrev advanced
RECURSIVE DirtyShapesFrom(_, _)
DirtyShapesFrom(t, i) ==
  IF i > MaxShapes THEN t
  ELSE LET shape == t.sdf[i]
       IN IF InShapeList(shape) /\ shape.m_dirty
          THEN DirtyShapesFrom(
                 [m_Dirty(m_Dirty(t, BoxTable[shape.m_aabbPrev]), BoxTable[shape.aabb])
                    EXCEPT !.sdf[i] = [shape EXCEPT !.m_dirty = FALSE,
                                                    !.m_aabbPrev = shape.aabb]],
                 i + 1)
          ELSE DirtyShapesFrom(t, i + 1)

DirtyShapes(t) == DirtyShapesFrom(t, 1)

\* ( m_center / kChunkSize ).NearestCopy()
ViewChunk(center) ==
  <<FloorDiv(2 * center[1] + kChunkSize, 2 * kChunkSize),
    FloorDiv(2 * center[2] + kChunkSize, 2 * kChunkSize),
    FloorDiv(2 * center[3] + kChunkSize, 2 * kChunkSize)>>

\* squared distance from the viewer to the centre of a chunk, half units
CenterDistance2(pos, center) ==
  LET d(i) == 2 * center[i] - (2 * kChunkSize * pos[i] + kChunkSize)
  IN d(1) * d(1) + d(2) * d(2) + d(3) * d(3)

\* aeTerrain::GetChunkScore.  The score is the distance when a neighbour
\* has a vertex count above Empty and the squared distance otherwise; the
\* model keeps 16 * score^2, which orders the same way
GetChunkScore(t, pos, center) ==
  LET neighbors == {<<1, 0, 0>>, <<0, 1, 0>>, <<0, 0, 1>>,
                    <<-1, 0, 0>>, <<0, -1, 0>>, <<0, 0, -1>>}
      hasNeighbor == \E n \in neighbors :
                       GetVertexCount(t, GetIndex(Add3(pos, n))) > kChunkCountEmpty
      d2 == CenterDistance2(pos, center)
  IN IF hasNeighbor THEN 4 * d2 ELSE d2 * d2

\* an enumeration that keeps the coordinates without a vertex count
InViewAll(t, center, radius) ==
  {pos \in {Add3(<<i, j, k>>, ViewChunk(center)) :
              i \in (0 - radius \div kChunkSize)..(radius \div kChunkSize - 1),
              j \in (0 - radius \div kChunkSize)..(radius \div kChunkSize - 1),
              k \in (0 - radius \div kChunkSize)..(radius \div kChunkSize - 1)} :
     /\ ~(CenterDistance2(pos, center) >= 4 * radius * radius)
     /\ GetVertexCount(t, GetIndex(pos)) # kChunkCountInterior}

\* the coordinates of the view window that pass the distance test and are
\* neither Empty nor Interior
InView(t, center, radius) ==
  LET chunkViewRadius == radius \div kChunkSize
      kChunkViewDiam == chunkViewRadius + chunkViewRadius
      viewChunk == ViewChunk(center)
      window == {Add3(<<i - chunkViewRadius, j - chunkViewRadius, k - chunkViewRadius>>,
                      viewChunk) :
                   i \in 0..(kChunkViewDiam - 1), j \in 0..(kChunkViewDiam - 1),
                   k \in 0..(kChunkViewDiam - 1)}
  IN {pos \in window :
        /\ ~(CenterDistance2(pos, center) >= 4 * radius * radius)
        /\ GetVertexCount(t, GetIndex(pos)) \notin {kChunkCountEmpty, kChunkCountInterior}}

\* t_chunkMap_hack: one ChunkSort [c, pos, score] per chunk index, for the
\* coordinates in view and then for every generated chunk
ChunkMap(t, center, radius) ==
  LET generatedAt(pos) == {h \in t.gl : t.chunks[h].m_pos = pos}
      positions == InView(t, center, radius) \cup {t.chunks[h].m_pos : h \in t.gl}
  IN {[ c |-> IF generatedAt(pos) # {} THEN CHOOSE h \in generatedAt(pos) : TRUE
              ELSE GetChunk(t, GetIndex(pos)),
        pos |-> pos,
        score |-> GetChunkScore(t, pos, center) ] : pos \in positions}

\* the AE_ASSERTs on a coordinate in view that has a chunk in the store
EnumerateOk(t, center, radius) ==
  \A pos \in InView(t, center, radius) :
    LET c == GetChunk(t, GetIndex(pos))
    IN c # 0 => /\ GetVertexCount(t, GetIndex(pos)) <= kMaxChunkVerts
                /\ t.chunks[c].m_vertices # 0

\* a sort that leaves the entries in any order
RECURSIVE SortedAny(_)
SortedAny(entries) ==
  IF entries = {} THEN {<< >>}
  ELSE UNION {{<<e>> \o rest : rest \in SortedAny(entries \ {e})} : e \in entries}

\* the results std::sort may leave: every order with ascending score
RECURSIVE SortedBy(_)
SortedBy(entries) ==
  IF entries = {} THEN {<< >>}
  ELSE UNION {{<<e>> \o rest : rest \in SortedBy(entries \ {e})} :
                e \in {x \in entries : \A y \in entries : ~(y.score < x.score)}}

\* ae::Array::Remove
Remove(seq, index) ==
  [k \in 1..(Len(seq) - 1) |-> IF k < index THEN seq[k] ELSE seq[k + 1]]

\* a finish loop that keeps the chunk of every job
DroppedNever(vertexCount) == FALSE

\* the result of a job that leaves no chunk
Dropped(vertexCount) ==
  vertexCount = kChunkCountEmpty \/ vertexCount = kChunkCountInterior

\* a finish loop that leaves the kept chunk without its vertex array
FinishNewNoArray(t, vertexCount, newChunk, oldChunk) ==
  IF Dropped(vertexCount) THEN FreeChunk(t, newChunk) ELSE t

\* the job's chunk is thrown away, or gets its vertex array and the dirty
\* flag of the chunk it replaces
FinishNew(t, vertexCount, newChunk, oldChunk) ==
  IF Dropped(vertexCount) THEN FreeChunk(t, newChunk)
  ELSE [t EXCEPT !.chunks[newChunk] =
          [@ EXCEPT !.m_vertices = vertexCount,
                    !.m_geoDirty = IF oldChunk # 0
                                   THEN t.chunks[oldChunk].m_geoDirty ELSE @]]

\* t_chunkSorts.FindFn and the replacement of the old chunk's entry
ReplaceSort(sorts, found, kept) ==
  IF found = {} THEN sorts
  ELSE [sorts EXCEPT ![CHOOSE k \in found : \A m \in found : k <= m].c = kept]

\* a finish loop that replaces the old chunk without freeing it
FinishOldKept(t, sorts, oldChunk, kept) ==
  IF oldChunk # 0
  THEN [ t |-> t,
         sorts |-> ReplaceSort(sorts, {k \in DOMAIN sorts : sorts[k].c = oldChunk}, kept) ]
  ELSE [t |-> t, sorts |-> sorts]

\* the old chunk leaves the sorted list and is freed; the result is [t, sorts]
FinishOld(t, sorts, oldChunk, kept) ==
  IF oldChunk # 0
  THEN [ t |-> FreeChunk(t, oldChunk),
         sorts |-> ReplaceSort(sorts, {k \in DOMAIN sorts : sorts[k].c = oldChunk}, kept) ]
  ELSE [t |-> t, sorts |-> sorts]

\* the world grid and the generated list after m_SetVertexCount
FinishGrid(t, i, chunkIndex, kept) ==
  IF t.aborted THEN t
  ELSE IF ~FinishOk(t.jobs[i]) THEN [t EXCEPT !.aborted = TRUE]
  ELSE IF kept # 0
  THEN [t EXCEPT !.ch3 = MapSet(@, chunkIndex, kept), !.gl = @ \cup {kept},
                 !.jobs[i] = Finish(@)]
  ELSE [t EXCEPT !.ch3 = MapErase(@, chunkIndex), !.jobs[i] = Finish(@)]

FinishRecord(st, i, chunkIndex, vertexCount, kept) ==
  [ t |-> FinishGrid(m_SetVertexCount(st.t, chunkIndex, vertexCount), i, chunkIndex, kept),
    sorts |-> st.sorts ]

FinishChunk(st, i, chunkIndex, vertexCount, newChunk, oldChunk, kept) ==
  FinishRecord(FinishOld(FinishNew(st.t, vertexCount, newChunk, oldChunk),
                         st.sorts, oldChunk, kept),
               i, chunkIndex, vertexCount, kept)

FinishIndexed(st, i, job, chunkIndex) ==
  FinishChunk(st, i, chunkIndex, job.m_vertexCount, job.m_chunk,
              GetChunk(st.t, chunkIndex),
              IF Dropped(job.m_vertexCount) THEN 0 ELSE job.m_chunk)

\* one iteration of the finish loop; st = [t, sorts]
FinishJob(st, i) ==
  IF st.t.aborted \/ ~IsPendingFinish(st.t.jobs[i]) THEN st
  ELSE IF ~(st.t.jobs[i].m_vertexCount <= kMaxChunkVerts)
  THEN [st EXCEPT !.t.aborted = TRUE]
  ELSE FinishIndexed(st, i, st.t.jobs[i],
                     GetIndex(st.t.chunks[st.t.jobs[i].m_chunk].m_pos))

RECURSIVE FinishJobsFrom(_, _)
FinishJobsFrom(st, i) ==
  IF i > Len(st.t.jobs) THEN st ELSE FinishJobsFrom(FinishJob(st, i), i + 1)

FinishJobs(t, sorts) == FinishJobsFrom([t |-> t, sorts |-> sorts], 1)

\* an idle test that passes whatever the pool reports
AlwaysIdle(tp) == TRUE

\* the idle test in front of sdf.UpdatePending()
PoolIsIdle(tp) == tp.size = 0 \/ n_idle(tp) = tp.size

\* the walk from the back of the sorted list after AllocChunk has failed:
\* entries without a chunk are removed, the first entry with a chunk is
\* stolen when the starting chunk is dirty or scores better.  r = [t,
\* sorts, chunk]
StealChunk(r, k, a) ==
  [ t |-> IF a.chunk = 0 THEN [a.t EXCEPT !.aborted = TRUE] ELSE a.t,
    sorts |-> Remove(r.sorts, k),
    chunk |-> a.chunk ]

\* a walk that never steals
StealNever(chunkDirty, otherScore, score) == FALSE

\* a walk that also steals a chunk that scores the same
StealAllowedTie(chunkDirty, otherScore, score) == chunkDirty \/ otherScore >= score

\* a walk that steals whatever the scores are
StealAllowedAlways(chunkDirty, otherScore, score) == TRUE

\* the test on the first entry with a chunk
StealAllowed(chunkDirty, otherScore, score) == chunkDirty \/ otherScore > score

RECURSIVE StealFrom(_, _, _, _, _)
StealFrom(r, k, chunkDirty, score, chunkPos) ==
  IF k < 1 THEN r
  ELSE IF r.sorts[k].c # 0
  THEN IF StealAllowed(chunkDirty, r.sorts[k].score, score)
       THEN StealChunk(r, k, AllocChunk(FreeChunk(r.t, r.sorts[k].c), chunkPos))
       ELSE r
  ELSE StealFrom([r EXCEPT !.sorts = Remove(r.sorts, k)], k - 1,
                 chunkDirty, score, chunkPos)

\* the AE_ASSERTs on an entry of the sorted list that has a chunk
DispatchOk(t, chunkSort) ==
  LET chunkIndex == GetIndex(chunkSort.pos)
  IN chunkSort.c # 0 =>
       /\ chunkSort.c \in DOMAIN t.chunks
       /\ GetChunk(t, chunkIndex) = chunkSort.c
       /\ GetVertexCount(t, chunkIndex) # kChunkCountDirty
       /\ GetVertexCount(t, chunkIndex) <= kMaxChunkVerts
       /\ t.chunks[chunkSort.c].m_vertices # 0

\* a dispatch without the "already queued" test
NeverQueued(t, chunkPos) == FALSE

\* the test that skips a coordinate another job slot already holds
AlreadyQueued(t, chunkPos) ==
  \E j \in DOMAIN t.jobs : HasChunk(t, t.jobs[j], chunkPos)

\* a dispatch that takes the first job slot, with a job or without
FreeJobFirst(t) == CHOOSE j \in DOMAIN t.jobs : \A k \in DOMAIN t.jobs : j <= k

\* the first job slot without a job
FreeJob(t) ==
  CHOOSE j \in DOMAIN t.jobs :
    ~HasJob(t.jobs[j]) /\ \A k \in 1..(j - 1) : HasJob(t.jobs[k])

\* a dispatch that steals a record where it can, full pool or not
StealOrAlloc(r, sorts, a) ==
  IF r.chunk # 0 THEN r ELSE [t |-> a.t, sorts |-> sorts, chunk |-> a.chunk]

AllocOrStealBoth(t, sorts, i, chunkDirty, a) ==
  StealOrAlloc(StealFrom([t |-> t, sorts |-> sorts, chunk |-> 0], Len(sorts),
                         chunkDirty, sorts[i].score, sorts[i].pos),
               sorts, a)

\* AllocChunk, and the steal walk when it fails: [t, sorts, chunk]
AllocOrSteal(t, sorts, i, chunkDirty, a) ==
  IF a.chunk # 0 THEN [t |-> a.t, sorts |-> sorts, chunk |-> a.chunk]
  ELSE StealFrom([t |-> t, sorts |-> sorts, chunk |-> 0], Len(sorts),
                 chunkDirty, sorts[i].score, sorts[i].pos)

\* the loop that starts new jobs, from entry i of the sorted list
RECURSIVE Dispatch(_, _, _)

\* a start that leaves the job of a pool without threads to be run later
DispatchStartLater(r, i, jobIndex) ==
  IF r.t.aborted \/ r.chunk = 0 THEN r.t
  ELSE IF r.t.tp.size # 0
  THEN Dispatch([r.t EXCEPT !.jobs[jobIndex] = StartNew(@, r.chunk),
                            !.tp.queued = @ \cup {jobIndex}],
                r.sorts, i + 1)
  ELSE [r.t EXCEPT !.jobs[jobIndex] = StartNew(@, r.chunk)]

\* the job is started on the new chunk: pushed to the pool, or run inline
\* when the pool has no thread (and then the loop ends)
DispatchStart(r, i, jobIndex) ==
  IF r.t.aborted \/ r.chunk = 0 THEN r.t
  ELSE IF ~StartNewOk(r.t.jobs[jobIndex], r.chunk) THEN [r.t EXCEPT !.aborted = TRUE]
  ELSE IF r.t.tp.size # 0
  THEN Dispatch([r.t EXCEPT !.jobs[jobIndex] = StartNew(@, r.chunk),
                            !.tp.queued = @ \cup {jobIndex}],
                r.sorts, i + 1)
  ELSE Do([r.t EXCEPT !.jobs[jobIndex] = StartNew(@, r.chunk)], jobIndex)

DispatchAlloc(t, sorts, i, chunkDirty, jobIndex) ==
  DispatchStart(AllocOrSteal(t, sorts, i, chunkDirty, AllocChunk(t, sorts[i].pos)),
                i, jobIndex)

\* a dispatch that passes over every coordinate that has a chunk, dirty or
\* not
DispatchChunkMissing(t, sorts, i, chunk) ==
  IF chunk # 0 THEN Dispatch(t, sorts, i + 1)
  ELSE IF n_idle(t.tp) = 0 /\ t.tp.size > 0 THEN t
  ELSE IF \A j \in DOMAIN t.jobs : HasJob(t.jobs[j]) THEN t
  ELSE IF AlreadyQueued(t, sorts[i].pos) THEN Dispatch(t, sorts, i + 1)
  ELSE DispatchAlloc(t, sorts, i, FALSE, FreeJob(t))

\* entry i with chunk its chunk, or the chunk of its coordinate
DispatchChunk(t, sorts, i, chunk) ==
  IF ~(chunk = 0 \/ t.chunks[chunk].m_geoDirty) THEN Dispatch(t, sorts, i + 1)
  ELSE IF n_idle(t.tp) = 0 /\ t.tp.size > 0 THEN t
  ELSE IF \A j \in DOMAIN t.jobs : HasJob(t.jobs[j]) THEN t
  ELSE IF AlreadyQueued(t, sorts[i].pos) THEN Dispatch(t, sorts, i + 1)
  ELSE IF chunk # 0 /\ t.chunks[chunk].m_geoDirty
  THEN DispatchAlloc([t EXCEPT !.chunks[chunk].m_geoDirty = FALSE], sorts, i, TRUE,
                     FreeJob(t))
  ELSE DispatchAlloc(t, sorts, i, FALSE, FreeJob(t))

Dispatch(t, sorts, i) ==
  IF t.aborted \/ i > Len(sorts) THEN t
  ELSE IF ~DispatchOk(t, sorts[i]) THEN [t EXCEPT !.aborted = TRUE]
  ELSE DispatchChunk(t, sorts, i,
                     IF sorts[i].c # 0 THEN sorts[i].c
                     ELSE GetChunk(t, GetIndex(sorts[i].pos)))

\* the workers that complete their task during the call, after
\* the finish loop has passed their slot and before the idle test
RECURSIVE DoAll(_, _)
DoAll(t, D) ==
  IF D = {} THEN t
  ELSE LET j == CHOOSE k \in D : TRUE
       IN DoAll([Do(t, j) EXCEPT !.tp.queued = @ \ {j}], D \ {j})

\* what the call observed at its idle test
Frame(t, idle) ==
  [ committed |-> idle,
    hadPending |-> idle /\ HasPending(t.sdf),
    running |-> IF idle THEN Cardinality({j \in DOMAIN t.jobs : t.jobs[j].m_running})
                ELSE 0 ]

\* sdf.UpdatePending() when the pool is idle; no new job while the pool is
\* busy and the sdf has pending changes
\* an Update that reaches the dispatch loop whatever the idle test found
UpdateStartAlways(t, sorts, start) == Dispatch(t, sorts, 1)

UpdateStart(t, sorts, start) == IF start THEN Dispatch(t, sorts, 1) ELSE t

\* an Update that never calls sdf.UpdatePending()
UpdateCommitNever(t, sorts, idle) ==
  UpdateStart(t, sorts, idle \/ ~HasPending(t.sdf))

UpdateCommit(t, sorts, idle) ==
  UpdateStart(IF idle THEN UpdatePending(t) ELSE t, sorts, idle \/ ~HasPending(t.sdf))

UpdateIdle(t0, ok, t, sorts, idle) ==
  [ t |-> IF ok THEN UpdateCommit(t, sorts, idle) ELSE [t0 EXCEPT !.aborted = TRUE],
    frame |-> Frame(t, idle) ]

\* the idle test
UpdateDone(t0, ok, t, sorts) == UpdateIdle(t0, ok, t, sorts, PoolIsIdle(t.tp))

UpdateFinished(t0, ok, st, D) ==
  UpdateDone(t0, ok /\ ~st.t.aborted, DoAll(st.t, D), st.sorts)

\* the call from the dirty phase's result t1 on; t0 is the state at entry
UpdateResult(t0, t1, center, radius, sorts, D) ==
  UpdateFinished(t0, EnumerateOk(t1, center, radius), FinishJobs(t1, sorts), D)

(***************************************************************************)
(* ae::Array< T, N > with N = 0 (include/ae/aether.h), T = int.  An array  *)
(* is [m_length, m_size, m_array]; m_array maps the slots 0..m_size-1 to   *)
(* their element, NoValue for a slot that holds no constructed element.    *)
(***************************************************************************)
\* sizeof( int )
SizeofT == 4

\* a slot without a constructed element
NoValue == -1

\* operator | of two non-negative integers
RECURSIVE BitOr(_, _)
BitOr(a, b) ==
  IF a = 0 THEN b
  ELSE IF b = 0 THEN a
  ELSE (IF a % 2 = 1 \/ b % 2 = 1 THEN 1 ELSE 0) + 2 * BitOr(a \div 2, b \div 2)

\* size |= size >> shift
OrShift(size, shift) == BitOr(size, size \div (2 ^ shift))

\* "Next power of two" of Reserve, for 1 <= size <= 2^30
NextPowerOfTwo(size) ==
  OrShift(OrShift(OrShift(OrShift(OrShift(size - 1, 1), 2), 4), 8), 16) + 1

\* the default constructor
ArrayNew == [m_length |-> 0, m_size |-> 0, m_array |-> EmptyMap]

\* the new allocation of Reserve: the elements are moved, the other slots
\* hold nothing
Reallocate(a, size) ==
  [a EXCEPT !.m_size = size,
            !.m_array = [i \in 0..(size - 1) |->
                           IF i < a.m_length /\ i < a.m_size THEN a.m_array[i]
                           ELSE NoValue]]

\* a Reserve that rounds any request, also one the storage already holds
ReserveAlways(a, size) ==
  IF size = 0 THEN a ELSE Reallocate(a, NextPowerOfTwo(size))

\* Array::Reserve
Reserve(a, size) ==
  IF size <= a.m_size THEN a ELSE Reallocate(a, NextPowerOfTwo(size))

\* Array::Array( tag, size )
ArraySized(size) == Reserve(ArrayNew, size)

\* the elements of Array( tag, length, value ) in the storage of a
Filled(a, length, value) ==
  [a EXCEPT !.m_length = length,
            !.m_array = [i \in DOMAIN @ |-> IF i < length THEN value ELSE NoValue]]

\* Array::Array( tag, length, value )
ArrayFilled(length, value) == Filled(Reserve(ArrayNew, length), length, value)

\* Array::Clear
Clear(a) ==
  [a EXCEPT !.m_length = 0, !.m_array = [i \in DOMAIN @ |-> NoValue]]

\* Array::m_GetNextSize
m_GetNextSize(a) ==
  IF a.m_size = 0 THEN Max2(1, 32 \div SizeofT) ELSE a.m_size * 2

\* the Reserve of Append and Insert when the storage is full
Grow(a) == IF a.m_length = a.m_size THEN Reserve(a, m_GetNextSize(a)) ELSE a

Construct(a, value) ==
  [a EXCEPT !.m_array[a.m_length] = value, !.m_length = @ + 1]

\* Array::Append( value )
ArrayAppend(a, value) == Construct(Grow(a), value)

\* the loop of Insert: for ( i = m_length - 1; i > index; i-- )
RECURSIVE MoveBack(_, _, _)
MoveBack(m_array, i, index) ==
  IF i > index THEN MoveBack([m_array EXCEPT ![i] = m_array[i - 1]], i - 1, index)
  ELSE m_array

\* an Insert that writes the value before the elements are moved
InsertSlotEarly(a, index, value) ==
  IF index = a.m_length THEN Construct(a, value)
  ELSE [a EXCEPT
          !.m_array = MoveBack([@ EXCEPT ![a.m_length] = a.m_array[a.m_length - 1],
                                         ![index] = value],
                               a.m_length - 1, index),
          !.m_length = @ + 1]

\* Insert once the storage has room
InsertSlot(a, index, value) ==
  IF index = a.m_length THEN Construct(a, value)
  ELSE [a EXCEPT
          !.m_array = [MoveBack([@ EXCEPT ![a.m_length] = a.m_array[a.m_length - 1]],
                                a.m_length - 1, index) EXCEPT ![index] = value],
          !.m_length = @ + 1]

\* Array::Insert( index, value ), index <= m_length
Insert(a, index, value) == InsertSlot(Grow(a), index, value)

\* the loop of Remove: for ( i = index; i < m_length; i++ )
RECURSIVE MoveFront(_, _, _)
MoveFront(m_array, i, m_length) ==
  IF i < m_length
  THEN MoveFront([m_array EXCEPT ![i] = m_array[i + 1]], i + 1, m_length)
  ELSE m_array

\* Array::Remove( index ) of the array a, index < m_length
ArrayRemove(a, index) ==
  [a EXCEPT !.m_length = @ - 1,
            !.m_array = [MoveFront(@, index, a.m_length - 1)
                           EXCEPT ![a.m_length - 1] = NoValue]]

\* the loop of Find and FindFn from slot i on; testFn is the set of the
\* values the function accepts
RECURSIVE FindFrom(_, _, _)
FindFrom(a, testFn, i) ==
  IF i < a.m_length
  THEN IF a.m_array[i] \in testFn THEN i ELSE FindFrom(a, testFn, i + 1)
  ELSE -1

\* Array::FindFn
FindFn(a, testFn) == FindFrom(a, testFn, 0)

\* Array::Find
Find(a, value) == FindFn(a, {value})

\* a removal that stops after the first match
RemoveFirstFn(a, testFn, count) ==
  IF FindFn(a, testFn) >= 0
  THEN [a |-> ArrayRemove(a, FindFn(a, testFn)), count |-> count + 1]
  ELSE [a |-> a, count |-> count]

\* the loop of RemoveAll and RemoveAllFn; the result is [a, count]
RECURSIVE RemoveLoop(_, _, _)
RemoveLoop(a, testFn, count) ==
  IF FindFn(a, testFn) >= 0
  THEN RemoveLoop(ArrayRemove(a, FindFn(a, testFn)), testFn, count + 1)
  ELSE [a |-> a, count |-> count]

\* Array::RemoveAllFn
RemoveAllFn(a, testFn) == RemoveLoop(a, testFn, 0)

\* Array::RemoveAll
RemoveAll(a, value) == RemoveLoop(a, {value}, 0)

\* no member function has been called
CallNone == [fn |-> "none", arg |-> 0, value |-> NoValue, testFn |-> {}, ret |-> NoValue]

(***************************************************************************)
(* The state machine of the scheduler                                      *)
(***************************************************************************)
\* no Generate call runs; full tells whether the last one to return had
\* returned from its capacity test
GenIdle == [active |-> FALSE, full |-> FALSE]

\* no Update has just returned
FrameNone == [committed |-> FALSE, hadPending |-> FALSE, running |-> 0]

\* no raycast has been made
ResultNone ==
  [ fn |-> "none", hit |-> FALSE, type |-> "Exterior", distance |-> "inf",
    posi |-> <<0, 0, 0>>, posf |-> "inf", normal |-> "inf", touchedUnloaded |-> FALSE ]

Init ==
  /\ m_vertexCounts = EmptyMap
  /\ m_chunks3 = EmptyMap
  /\ m_chunkPool = PoolEmpty
  /\ chunks = EmptyMap
  /\ m_generatedList = {}
  /\ \E maxThreads \in 0..MaxThreads :
       /\ m_threadPool = [size |-> maxThreads, queued |-> {}]
       /\ m_terrainJobs = [j \in 1..Max2(1, maxThreads) |-> JobNew]
  /\ sdf = [i \in ShapeIds |-> ShapeNone]
  /\ frame = FrameNone
  /\ aborted = FALSE
  /\ m_center = <<0, 0, 0>>
  /\ result = ResultNone
  /\ array = ArrayNew
  /\ call = CallNone
  /\ calls = 0
  /\ gen = GenIdle

\* aeTerrain::Update; completions is the sets of workers that may complete
\* their task during the call
UpdateCall(center, radius, completions) ==
  /\ ~aborted
  /\ \E t0 \in {Terrain} :
     \E t1 \in {DirtyShapes(t0)} :
     \E sorts \in SortedBy(ChunkMap(t1, center, radius)) :
        \E D \in completions :
          \E r \in {UpdateResult(t0, t1, center, radius, sorts, D)} :
             IF r.t.aborted
             THEN /\ aborted' = TRUE
                  /\ UNCHANGED <<m_vertexCounts, m_chunks3, m_chunkPool, chunks,
                                 m_generatedList, m_terrainJobs, sdf, m_threadPool, frame,
                                 m_center>>
             ELSE /\ m_vertexCounts' = r.t.vc
                  /\ m_chunks3' = r.t.ch3
                  /\ m_chunkPool' = r.t.pool
                  /\ chunks' = r.t.chunks
                  /\ m_generatedList' = r.t.gl
                  /\ m_terrainJobs' = r.t.jobs
                  /\ sdf' = r.t.sdf
                  /\ m_threadPool' = r.t.tp
                  /\ frame' = r.frame
                  /\ aborted' = FALSE
                  /\ m_center' = center
  /\ UNCHANGED <<gen, result, array, call>>

UpdateWith(center, radius, completions) ==
  UpdateCall(center, radius, completions) /\ UNCHANGED calls

\* Update called by a caller that counts its calls
UpdateCounted(center, radius) ==
  UpdateCall(center, radius, SUBSET m_threadPool.queued) /\ calls' = 1 - calls

Update(center, radius) == UpdateWith(center, radius, SUBSET m_threadPool.queued)

\* a worker thread runs the pushed task of job slot j
JobDo(j) ==
  /\ ~aborted
  /\ j \in m_threadPool.queued
  /\ \E r \in {Do(Terrain, j)} :
       /\ m_terrainJobs' = r.jobs
       /\ chunks' = r.chunks
  /\ m_threadPool' = [m_threadPool EXCEPT !.queued = @ \ {j}]
  /\ UNCHANGED <<m_vertexCounts, m_chunks3, m_chunkPool, m_generatedList,
                 sdf, aborted, m_center, gen, result, array, call, calls>>
  /\ frame' = FrameNone

\* the caller creates a shape: it waits in the pending list
CreateSdf(i, box) ==
  /\ ~aborted
  /\ sdf[i].state = "none"
  /\ sdf' = [sdf EXCEPT ![i] = [state |-> "pendingCreate", aabb |-> box,
                                m_aabbPrev |-> box, m_dirty |-> FALSE]]
  /\ UNCHANGED <<m_vertexCounts, m_chunks3, m_chunkPool, chunks, m_generatedList,
                 m_terrainJobs, m_threadPool, aborted, m_center, gen, result, array, call, calls>>
  /\ frame' = FrameNone

\* the caller moves a shape of the shape list and marks it dirty
SetTransform(i, box) ==
  /\ ~aborted
  /\ sdf[i].state = "live"
  /\ sdf[i].aabb # box
  /\ sdf' = [sdf EXCEPT ![i].aabb = box, ![i].m_dirty = TRUE]
  /\ UNCHANGED <<m_vertexCounts, m_chunks3, m_chunkPool, chunks, m_generatedList,
                 m_terrainJobs, m_threadPool, aborted, m_center, gen, result, array, call, calls>>
  /\ frame' = FrameNone

\* the caller destroys a shape: it stays in the shape list until the commit
DestroySdf(i) ==
  /\ ~aborted
  /\ sdf[i].state = "live"
  /\ sdf' = [sdf EXCEPT ![i].state = "pendingDestroy"]
  /\ UNCHANGED <<m_vertexCounts, m_chunks3, m_chunkPool, chunks, m_generatedList,
                 m_terrainJobs, m_threadPool, aborted, m_center, gen, result, array, call, calls>>
  /\ frame' = FrameNone

Next ==
  \/ \E center \in ViewCenters, radius \in ViewRadii : Update(center, radius)
  \/ \E j \in 1..MaxThreads : JobDo(j)
  \/ \E i \in ShapeIds, box \in BoxIds : CreateSdf(i, box)
  \/ \E i \in ShapeIds, box \in BoxIds : SetTransform(i, box)
  \/ \E i \in ShapeIds : DestroySdf(i)

Spec == Init /\ [][Next]_vars

\* every worker that has a pushed task eventually runs it to its end
FairJobs == \A j \in 1..MaxThreads : WF_vars(JobDo(j))

\* the scheduler with workers that make progress and an owner that counts
\* its Update calls
NextFair ==
  \/ \E center \in ViewCenters, radius \in ViewRadii : UpdateCounted(center, radius)
  \/ \E j \in 1..MaxThreads : JobDo(j)
  \/ \E i \in ShapeIds, box \in BoxIds : CreateSdf(i, box)
  \/ \E i \in ShapeIds, box \in BoxIds : SetTransform(i, box)
  \/ \E i \in ShapeIds : DestroySdf(i)

SpecFair == Init /\ [][NextFair]_vars /\ FairJobs

(***************************************************************************)
(* The extractor, edge by edge.  One worker; the shape is created once,    *)
(* from the wider family of boxes, and never edited, and the worker's      *)
(* task is run one tested edge at a time.  Generate works on the job's own *)
(* buffers and Update does not touch a running job, so Update is taken     *)
(* between the worker's tasks.                                             *)
(***************************************************************************)
InitGen == Init /\ m_threadPool.size = 1

\* the worker takes the pushed task of job slot j: the SDF cache is filled
\* from the field of the moment and Generate starts
GenBegin(j) ==
  /\ ~aborted
  /\ ~gen.active
  /\ j \in m_threadPool.queued
  /\ gen' = [ active |-> TRUE, job |-> j, field |-> Field(sdf),
              pos |-> chunks[m_terrainJobs[j].m_chunk].m_pos,
              n |-> 1, e |-> 1, g |-> GenStart ]
  /\ UNCHANGED <<m_vertexCounts, m_chunks3, m_chunkPool, chunks, m_generatedList,
                 m_terrainJobs, sdf, m_threadPool, aborted, m_center, result, array, call, calls>>
  /\ frame' = FrameNone

\* the next tested edge: a voxel without a sign-changing edge is classified
\* and left in one step
GenStep ==
  /\ gen.active
  /\ ~gen.g.returned
  /\ gen.n <= VoxelCount
  /\ LET v == VoxelAt(gen.n)
     IN IF edgeBits(gen.field, gen.pos, v) = {}
        THEN gen' = [gen EXCEPT !.g = GenClassify(@, v, gen.field, gen.pos),
                                !.n = @ + 1, !.e = 1]
        ELSE gen' = [gen EXCEPT !.g = GenVoxelEdge(@, v, gen.e, gen.field, gen.pos),
                                !.n = IF gen.e = 3 THEN @ + 1 ELSE @,
                                !.e = IF gen.e = 3 THEN 1 ELSE @ + 1]
  /\ UNCHANGED <<m_vertexCounts, m_chunks3, m_chunkPool, chunks, m_generatedList,
                 m_terrainJobs, sdf, m_threadPool, frame, aborted, m_center, result, array, call, calls>>

\* the voxel loop is through: the vertices get their materials and the
\* out parameters are set
GenVertexPhase(material) ==
  /\ gen.active
  /\ ~gen.g.returned
  /\ gen.n > VoxelCount
  /\ gen' = [gen EXCEPT !.g = GenFinish(GenVertices(@, material))]
  /\ UNCHANGED <<m_vertexCounts, m_chunks3, m_chunkPool, chunks, m_generatedList,
                 m_terrainJobs, sdf, m_threadPool, frame, aborted, m_center, result, array, call, calls>>

\* Generate has returned and aeTerrainJob::Do stores the counts in the job
GenReturn ==
  /\ gen.active
  /\ gen.g.returned
  /\ m_terrainJobs' = [m_terrainJobs EXCEPT ![gen.job] =
                         [@ EXCEPT !.m_running = FALSE,
                                   !.m_vertexCount = gen.g.vertexCountOut,
                                   !.m_indexCount = gen.g.indexCountOut]]
  /\ chunks' = [chunks EXCEPT ![m_terrainJobs[gen.job].m_chunk].m_t = gen.g.m_t]
  /\ m_threadPool' = [m_threadPool EXCEPT !.queued = @ \ {gen.job}]
  /\ gen' = [active |-> FALSE, full |-> gen.g.full]
  /\ UNCHANGED <<m_vertexCounts, m_chunks3, m_chunkPool, m_generatedList,
                 sdf, frame, aborted, m_center, result, array, call, calls>>

UpdateGen(center, radius) ==
  /\ ~gen.active
  /\ UpdateWith(center, radius, {{}})

NextGen ==
  \/ \E center \in ViewCenters, radius \in ViewRadii : UpdateGen(center, radius)
  \/ \E j \in 1..MaxThreads : GenBegin(j)
  \/ GenStep
  \/ \E material \in MaterialTags : GenVertexPhase(material)
  \/ GenReturn
  \/ \E i \in ShapeIds, box \in GenBoxIds : CreateSdf(i, box)

SpecGen == InitGen /\ [][NextGen]_vars

(***************************************************************************)
(* The viewer that settles.  The caller creates shapes and moves the       *)
(* viewer until it is at one of the SettleCenters; from then on every      *)
(* Update has the same arguments and no shape is edited.                   *)
(***************************************************************************)
Settled == m_center \in SettleCenters

UpdateView(center, radius) ==
  /\ Settled => center = m_center
  /\ Update(center, radius)

CreateSdfView(i, box) == ~Settled /\ CreateSdf(i, box)

NextView ==
  \/ \E center \in SettleCenters \cup {StartCenter}, radius \in ViewRadii :
        UpdateView(center, radius)
  \/ \E j \in 1..MaxThreads : JobDo(j)
  \/ \E i \in ShapeIds, box \in BoxIds : CreateSdfView(i, box)

\* every worker thread runs the task it was given; how often the caller
\* calls Update, and when the viewer settles, is left open
FairView == \A j \in 1..MaxThreads : WF_vars(JobDo(j))

SpecView == Init /\ [][NextView]_vars /\ FairView

(***************************************************************************)
(* The raycasts.  A ray starts at the centre of the voxel start and runs   *)
(* len voxels along one axis (axis 1..3, sign 1 or -1); len 0 is the ray   *)
(* that is too short.  A float of the result is "inf" (+infinity), "zero"  *)
(* or "computed".                                                          *)
(***************************************************************************)
RayStarts == {<<0, 0, 0>>, <<2, 1, 1>>, <<5, 0, 0>>}
RayLengths == {0, 1, 3}

RayStep(axis, sign) == [i \in 1..3 |-> IF i = axis THEN sign ELSE 0]

\* outX, outY, outZ for the axis of the ray: ceil( start + ray ) forwards,
\* (int32_t)( start + ray ) - 1 backwards, the cast truncating towards 0
RayOut(s, sign, len) ==
  IF sign > 0 THEN s + len + 1
  ELSE (IF s - len >= 0 THEN s - len ELSE s - len + 1) - 1

\* the result as Raycast initializes it
ResultInitZero ==
  [ fn |-> "Raycast", hit |-> FALSE, type |-> "Exterior", distance |-> "inf",
    posi |-> <<0, 0, 0>>, posf |-> "zero", normal |-> "zero", touchedUnloaded |-> FALSE ]

\* the result as RaycastFast initializes it
ResultInit ==
  [ fn |-> "RaycastFast", hit |-> FALSE, type |-> "Exterior", distance |-> "inf",
    posi |-> <<0, 0, 0>>, posf |-> "inf", normal |-> "inf", touchedUnloaded |-> FALSE ]

\* the return with a hit
ResultHit(res, pos) ==
  [res EXCEPT !.hit = TRUE, !.type = "Surface", !.posi = pos, !.distance = "computed",
              !.posf = "computed", !.normal = "computed"]

\* the loop of RaycastFast from the voxel pos on
RECURSIVE FastMarch(_, _, _, _, _, _, _)
FastAdvance(t, next, axis, sign, out, res) ==
  IF next[axis] = out THEN res
  ELSE FastMarch(t, next, axis, sign, out, TRUE, res)

\* a loop body that keeps the flag of the last voxel only
FastVoxelLast(t, pos, axis, sign, out, allowSourceCollision, res, type) ==
  IF type = "Surface" /\ allowSourceCollision
  THEN ResultHit(res, pos)
  ELSE FastAdvance(t, Add3(pos, RayStep(axis, sign)), axis, sign, out,
                   [res EXCEPT !.type = type,
                               !.touchedUnloaded = (type = "Unloaded")])

FastVoxel(t, pos, axis, sign, out, allowSourceCollision, res, type) ==
  IF type = "Surface" /\ allowSourceCollision
  THEN ResultHit(res, pos)
  ELSE FastAdvance(t, Add3(pos, RayStep(axis, sign)), axis, sign, out,
                   [res EXCEPT !.type = type,
                               !.touchedUnloaded = @ \/ type = "Unloaded"])

FastMarch(t, pos, axis, sign, out, allowSourceCollision, res) ==
  FastVoxel(t, pos, axis, sign, out, allowSourceCollision, res, GetVoxel(t, pos))

\* aeTerrain::RaycastFast
RaycastFast(t, start, axis, sign, len, allowSourceCollision) ==
  IF len = 0 THEN ResultInit
  ELSE FastMarch(t, start, axis, sign, RayOut(start[axis], sign, len),
                 allowSourceCollision, ResultInit)

\* the loop of Raycast from the voxel pos on; crossing is the voxels along
\* the axis at which the SDF changes sign between the two check positions
RECURSIVE RayMarch(_, _, _, _, _, _, _)
RayAdvance(t, next, axis, sign, out, crossing, res) ==
  IF next[axis] = out THEN res
  ELSE RayMarch(t, next, axis, sign, out, crossing, res)

RayVoxel(t, pos, axis, sign, out, crossing, res, type) ==
  IF type = "Surface" /\ pos[axis] \in crossing
  THEN ResultHit(res, pos)
  ELSE RayAdvance(t, Add3(pos, RayStep(axis, sign)), axis, sign, out, crossing,
                  [res EXCEPT !.type = type,
                              !.posi = IF type = "Surface" THEN pos ELSE @,
                              !.touchedUnloaded = @ \/ type = "Unloaded"])

RayMarch(t, pos, axis, sign, out, crossing, res) ==
  RayVoxel(t, pos, axis, sign, out, crossing, res, GetVoxel(t, pos))

\* aeTerrain::Raycast
Raycast(t, start, axis, sign, len, crossing) ==
  IF len = 0 THEN ResultInitZero
  ELSE RayMarch(t, start, axis, sign, RayOut(start[axis], sign, len), crossing,
                ResultInitZero)

\* the voxels along the axis that the ray meets
RayVoxels(s, sign, len) == IF sign > 0 THEN s..(s + len) ELSE (s - len)..s

\* the caller casts a ray
RaycastFastCall(start, axis, sign, len, allowSourceCollision) ==
  /\ ~aborted
  /\ result' = RaycastFast(Terrain, start, axis, sign, len, allowSourceCollision)
  /\ UNCHANGED <<m_vertexCounts, m_chunks3, m_chunkPool, chunks, m_generatedList,
                 m_terrainJobs, sdf, m_threadPool, frame, aborted, m_center, gen, array, call, calls>>

RaycastCall(start, axis, sign, len, crossing) ==
  /\ ~aborted
  /\ result' = Raycast(Terrain, start, axis, sign, len, crossing)
  /\ UNCHANGED <<m_vertexCounts, m_chunks3, m_chunkPool, chunks, m_generatedList,
                 m_terrainJobs, sdf, m_threadPool, frame, aborted, m_center, gen, array, call, calls>>

NextRay ==
  \/ \E center \in ViewCenters, radius \in ViewRadii : Update(center, radius)
  \/ \E j \in 1..MaxThreads : JobDo(j)
  \/ \E i \in ShapeIds, box \in BoxIds : CreateSdf(i, box)
  \/ \E start \in RayStarts, axis \in 1..3, sign \in {-1, 1}, len \in RayLengths,
        allowSourceCollision \in BOOLEAN :
        RaycastFastCall(start, axis, sign, len, allowSourceCollision)
  \/ \E start \in RayStarts, axis \in 1..3, sign \in {-1, 1}, len \in RayLengths :
        \E crossing \in SUBSET RayVoxels(start[axis], sign, len) :
          RaycastCall(start, axis, sign, len, crossing)

SpecRay == Init /\ [][NextRay]_vars

(***************************************************************************)
(* The grid walk of the raycasts, one loop iteration per step.  Positions  *)
(* are in quarters of a voxel: a ray starts at the centre of the voxel     *)
(* start and runs len quarters along one axis.  The walk is kept in result *)
(* as [fn, walking, start, axis, sign, len, pos, step, out, tmax, tdelta,  *)
(* allow, steps].                                                          *)
(***************************************************************************)
WalkStarts == {<<0, 0, 0>>, <<-1, 0, 0>>, <<-2, -1, -1>>}
WalkLengths == {1, 4, 12}
WalkFns == {"RaycastFast", "Raycast"}
MaxWalk == 5

\* tdelta of an axis the ray does not move along is never assigned
UnsetDeltas == {0, 4}

\* the float of the centre of a voxel, and of the ray along an axis
StartOf(start, i) == 4 * start[i] + 2
RayOf(i, axis, sign, len) == IF i = axis THEN sign * len ELSE 0

\* ceil of a float, as an int32_t
CeilQ(q) == 0 - FloorDiv(0 - q, 4)

\* outX, outY, outZ: ceil( start + ray ) when dir > 0, and
\* (int32_t)( start + ray ) - 1 otherwise, the cast truncating towards 0
WalkOut(startq, rayq) ==
  IF rayq > 0 THEN CeilQ(startq + rayq) ELSE TruncDiv(startq + rayq, 4) - 1

\* the state of the walk before the loop
GridWalk(fn, start, axis, sign, len, allowSourceCollision, unset) ==
  [ fn |-> fn, walking |-> TRUE, start |-> start, axis |-> axis, sign |-> sign,
    len |-> len,
    pos |-> [i \in 1..3 |-> FloorDiv(StartOf(start, i), 4)],
    step |-> [i \in 1..3 |-> IF RayOf(i, axis, sign, len) > 0 THEN 1 ELSE -1],
    out |-> [i \in 1..3 |-> WalkOut(StartOf(start, i), RayOf(i, axis, sign, len))],
    tmax |-> [i \in 1..3 |->
                IF i # axis THEN 4 * 1000000
                ELSE IF sign > 0
                THEN 4 * (FloorDiv(StartOf(start, i), 4) + 1) - StartOf(start, i)
                ELSE StartOf(start, i) - 4 * FloorDiv(StartOf(start, i), 4)],
    tdelta |-> [i \in 1..3 |-> IF i = axis THEN 4 ELSE unset],
    allow |-> allowSourceCollision,
    steps |-> 0 ]

\* the axis the loop steps along
WalkAxis(tmax) ==
  IF tmax[1] < tmax[2] THEN (IF tmax[1] < tmax[3] THEN 1 ELSE 3)
  ELSE (IF tmax[2] < tmax[3] THEN 2 ELSE 3)

\* the step along axis a: the return at the sentinel, or the next tmax
WalkAlong(w, a) ==
  IF w.pos[a] + w.step[a] = w.out[a]
  THEN [w EXCEPT !.pos[a] = @ + w.step[a], !.walking = FALSE, !.steps = @ + 1]
  ELSE [w EXCEPT !.pos[a] = @ + w.step[a], !.tmax[a] = @ + w.tdelta[a],
                 !.allow = TRUE, !.steps = @ + 1]

\* one iteration of the loop; crossing is the outcome of Raycast's sign
\* test on a Surface voxel
WalkIteration(w, type, crossing) ==
  IF type = "Surface" /\ (IF w.fn = "RaycastFast" THEN w.allow ELSE crossing)
  THEN [w EXCEPT !.walking = FALSE]
  ELSE WalkAlong(w, WalkAxis(w.tmax))

\* the caller casts a ray: the code up to the loop
WalkBegin(fn, start, axis, sign, len, allowSourceCollision, unset) ==
  /\ ~aborted
  /\ result' = GridWalk(fn, start, axis, sign, len, allowSourceCollision, unset)
  /\ UNCHANGED <<m_vertexCounts, m_chunks3, m_chunkPool, chunks, m_generatedList,
                 m_terrainJobs, sdf, m_threadPool, frame, aborted, m_center, gen, array, call, calls>>

\* the loop runs once more
WalkStep ==
  /\ ~aborted
  /\ result.fn \in WalkFns
  /\ "walking" \in DOMAIN result
  /\ result.walking
  /\ result.steps < MaxWalk
  /\ \E crossing \in BOOLEAN :
       result' = WalkIteration(result, GetVoxel(Terrain, result.pos), crossing)
  /\ UNCHANGED <<m_vertexCounts, m_chunks3, m_chunkPool, chunks, m_generatedList,
                 m_terrainJobs, sdf, m_threadPool, frame, aborted, m_center, gen, array, call, calls>>

NextWalk ==
  \/ \E fn \in WalkFns, start \in WalkStarts, axis \in 1..3, sign \in {-1, 1},
        len \in WalkLengths, allowSourceCollision \in BOOLEAN, unset \in UnsetDeltas :
        WalkBegin(fn, start, axis, sign, len, allowSourceCollision, unset)
  \/ WalkStep

SpecWalk == Init /\ [][NextWalk]_vars

(***************************************************************************)
(* The array.  A caller constructs an Array< int > and calls its member    *)
(* functions; ret is the count a removal returns and the slot of the       *)
(* element a returned reference refers to.                                 *)
(***************************************************************************)
ArrayValues == {0, 3, 7}
ArraySizes == {0, 1, 2, 3, 5, 17}
MaxLength == 4

ArrayCall(a, fn, arg, value, testFn, ret) ==
  /\ array' = a
  /\ call' = [fn |-> fn, arg |-> arg, value |-> value, testFn |-> testFn, ret |-> ret]
  /\ UNCHANGED <<m_vertexCounts, m_chunks3, m_chunkPool, chunks, m_generatedList,
                 m_terrainJobs, sdf, m_threadPool, frame, aborted, m_center, gen, result,
                 calls>>

ArraySizedCall(size) == ArrayCall(ArraySized(size), "ArraySized", size, NoValue, {}, NoValue)

ArrayFilledCall(length, value) ==
  ArrayCall(ArrayFilled(length, value), "ArrayFilled", length, value, {}, NoValue)

ReserveCall(size) == ArrayCall(Reserve(array, size), "Reserve", size, NoValue, {}, NoValue)

ClearCall == ArrayCall(Clear(array), "Clear", 0, NoValue, {}, NoValue)

AppendCall(value) ==
  /\ array.m_length < MaxLength
  /\ ArrayCall(ArrayAppend(array, value), "Append", 0, value, {}, array.m_length)

InsertCall(index, value) ==
  /\ array.m_length < MaxLength
  /\ index <= array.m_length
  /\ ArrayCall(Insert(array, index, value), "Insert", index, value, {}, index)

RemoveAllCall(value) ==
  \E r \in {RemoveAll(array, value)} :
     ArrayCall(r.a, "RemoveAll", 0, value, {value}, r.count)

RemoveAllFnCall(testFn) ==
  \E r \in {RemoveAllFn(array, testFn)} :
     ArrayCall(r.a, "RemoveAllFn", 0, NoValue, testFn, r.count)

NextArray ==
  \/ \E size \in ArraySizes : ArraySizedCall(size)
  \/ \E length \in 0..MaxLength, value \in ArrayValues : ArrayFilledCall(length, value)
  \/ \E size \in ArraySizes : ReserveCall(size)
  \/ ClearCall
  \/ \E value \in ArrayValues : AppendCall(value)
  \/ \E index \in 0..MaxLength, value \in ArrayValues : InsertCall(index, value)
  \/ \E value \in ArrayValues : RemoveAllCall(value)
  \/ \E testFn \in SUBSET ArrayValues : RemoveAllFnCall(testFn)

SpecArray == Init /\ [][NextArray]_vars

(***************************************************************************)
(* The keys.  A caller asks for the key of one chunk coordinate after the  *)
(* other; call holds the coordinate and its key, and those of the call     *)
(* before.                                                                 *)
(***************************************************************************)
IndexComponents == {-40, -1, 0, 1, 40}
IndexCoords == {<<x, y, z>> : x \in IndexComponents, y \in IndexComponents, z \in IndexComponents}

GetIndexCall(pos) ==
  /\ call' = [fn |-> "GetIndex", pos |-> pos, index |-> GetIndex(pos),
              other |-> IF call.fn = "GetIndex" THEN call.pos ELSE pos,
              otherIndex |-> IF call.fn = "GetIndex" THEN call.index ELSE GetIndex(pos)]
  /\ UNCHANGED <<m_vertexCounts, m_chunks3, m_chunkPool, chunks, m_generatedList,
                 m_terrainJobs, sdf, m_threadPool, frame, aborted, m_center, gen, result,
                 array, calls>>

NextIndex == \E pos \in IndexCoords : GetIndexCall(pos)

SpecIndex == Init /\ [][NextIndex]_vars

(***************************************************************************)
(* Properties of the scheduler                                             *)
(***************************************************************************)
\* the chunk coordinate a job slot holds
JobPos(j) == chunks[m_terrainJobs[j].m_chunk].m_pos

\* the job slots that hold a chunk
HeldJobs == {j \in DOMAIN m_terrainJobs : m_terrainJobs[j].m_chunk # 0}

\* C1: no two job slots hold a chunk with the same chunk coordinate, and a
\* step of Update never leaves a slot with a newly started job on a
\* coordinate that another slot holds
C1_OneJobPerCoordinate ==
  \A i \in HeldJobs, j \in HeldJobs : i # j => JobPos(i) # JobPos(j)

\* two job slots hold chunks at once
C1_TwoJobsHeld ==
  \E i \in HeldJobs, j \in HeldJobs :
    i # j /\ m_terrainJobs[i].m_running /\ IsPendingFinish(m_terrainJobs[j])

C4_PoolCapacity ==
  /\ m_chunkPool.m_length = Cardinality(DOMAIN chunks)
  /\ DOMAIN chunks = m_generatedList \cup {m_terrainJobs[j].m_chunk : j \in HeldJobs}
  /\ Cardinality(DOMAIN chunks) <= kMaxLoadedChunks
  /\ m_chunkPool.m_length = kMaxLoadedChunks =>
       \A pos \in JobPositions : AllocChunk(Terrain, pos) = [t |-> Terrain, chunk |-> 0]

\* the pool is full: a generated chunk and a chunk held by a job
C4_PoolFull ==
  /\ m_chunkPool.m_length = kMaxLoadedChunks
  /\ m_generatedList # {}
  /\ HeldJobs # {}

\* C5: every chunk of the generated list has a real vertex count
\* 1..kMaxChunkVerts-1 recorded for its coordinate and a vertex array
C5_GeneratedChunks ==
  \A h \in m_generatedList :
    /\ h \in DOMAIN chunks
    /\ GetIndex(chunks[h].m_pos) \in DOMAIN m_vertexCounts
    /\ m_vertexCounts[GetIndex(chunks[h].m_pos)] >= 1
    /\ m_vertexCounts[GetIndex(chunks[h].m_pos)] <= kMaxChunkVerts - 1
    /\ chunks[h].m_vertices # 0

\* a generated chunk that a shape edit has marked dirty
C5_GeneratedDirty ==
  \E h \in m_generatedList : chunks[h].m_geoDirty

\* the AABB of the chunk at pos and a box (half units) share a volume
Overlaps(pos, box) ==
  \A i \in 1..3 : ChunkAABB(pos).min[i] < box.max[i] /\ box.min[i] < ChunkAABB(pos).max[i]

\* the shape slots that SetTransform has moved since the last dirty phase
MovedShapes == {i \in ShapeIds : sdf[i].state = "live" /\ sdf[i].m_dirty
                                  /\ sdf[i].aabb # sdf[i].m_aabbPrev}

\* coordinate c is marked for regeneration: its chunk in the store is
\* geoDirty, or it carries the Dirty sentinel, or a job started on it runs
MarkedIn(c, vc, ch3, chs, jobs) ==
  \/ GetIndex(c) \in DOMAIN ch3 /\ chs[ch3[GetIndex(c)]].m_geoDirty
  \/ GetIndex(c) \in DOMAIN vc /\ vc[GetIndex(c)] = kChunkCountDirty
  \/ \E j \in DOMAIN jobs : /\ jobs[j].m_chunk # 0
                            /\ jobs[j].m_running
                            /\ chs[jobs[j].m_chunk].m_pos = c

\* C2: when a shape overlapping coordinate c was moved while the job of c
\* was in flight, the Update that finishes the job leaves c marked for
\* regeneration (geoDirty chunk, Dirty sentinel, or a fresh job)
C2_EditSurvivesFinish ==
  [][\A j \in HeldJobs :
       (/\ IsPendingFinish(m_terrainJobs[j])
        /\ \E i \in MovedShapes : Overlaps(JobPos(j), BoxTable[sdf[i].aabb])
        /\ m_terrainJobs'[j] # m_terrainJobs[j])
       => MarkedIn(JobPos(j), m_vertexCounts', m_chunks3', chunks', m_terrainJobs')]_vars

\* the coordinates that have a vertex count or a chunk in the store
KnownIndices == (DOMAIN m_vertexCounts) \cup (DOMAIN m_chunks3)

\* a real vertex count
IsRealCount(count) == count >= 1 /\ count <= kMaxChunkVerts - 1

\* C6 as stated: a coordinate has no chunk in the store unless it has a real
\* vertex count, and a real vertex count comes with a chunk in the store
\* whose vertex array has that many vertices
C6_FourStates ==
  \A k \in KnownIndices :
    IF k \in DOMAIN m_vertexCounts /\ IsRealCount(m_vertexCounts[k])
    THEN /\ k \in DOMAIN m_chunks3
         /\ chunks[m_chunks3[k]].m_vertices = m_vertexCounts[k]
    ELSE k \notin DOMAIN m_chunks3

\* C6 amended: a chunk in the store is a generated chunk of that coordinate
\* whose vertex array has as many vertices as the real count recorded for
\* the coordinate; a coordinate without a chunk in the store has no entry,
\* a sentinel, or the real count of the chunk it has lost
C6_FiveStates ==
  \A k \in KnownIndices :
    IF k \in DOMAIN m_chunks3
    THEN /\ m_chunks3[k] \in m_generatedList
         /\ GetIndex(chunks[m_chunks3[k]].m_pos) = k
         /\ k \in DOMAIN m_vertexCounts
         /\ IsRealCount(m_vertexCounts[k])
         /\ chunks[m_chunks3[k]].m_vertices = m_vertexCounts[k]
    ELSE \/ m_vertexCounts[k] \in {kChunkCountDirty, kChunkCountInterior}
         \/ IsRealCount(m_vertexCounts[k])

\* a real vertex count is recorded for a coordinate that has no chunk in
\* the store
C6_CountWithoutChunk ==
  \E k \in DOMAIN m_vertexCounts :
    /\ IsRealCount(m_vertexCounts[k])
    /\ k \notin DOMAIN m_chunks3

\* the coordinates the dirty phase is examined on
DirtyProbe == {<<x, y, z>> : x \in -3..3, y \in -2..2, z \in -2..2}

\* the dirty shapes of the shape list
DirtyShapeIds == {i \in ShapeIds : InShapeList(sdf[i]) /\ sdf[i].m_dirty}

\* the coordinates whose chunk AABB overlaps the previous or the current
\* AABB, expanded by the halo, of a dirty shape
DirtyOverlap ==
  {pos \in DirtyProbe :
     \E i \in DirtyShapeIds :
       \/ Overlaps(pos, Expand(BoxTable[sdf[i].m_aabbPrev], kSdfBoundary))
       \/ Overlaps(pos, Expand(BoxTable[sdf[i].aabb], kSdfBoundary))}

\* the dirty phase's result t1 against the state it started from
DirtyPhaseOk(t1, overlap) ==
  /\ \A i \in DirtyShapeIds :
       ~t1.sdf[i].m_dirty /\ t1.sdf[i].m_aabbPrev = sdf[i].aabb
  /\ \A pos \in overlap :
       IF GetIndex(pos) \in DOMAIN m_chunks3
       THEN t1.chunks[m_chunks3[GetIndex(pos)]].m_geoDirty
       ELSE GetVertexCount(t1, GetIndex(pos)) = kChunkCountDirty
  /\ \A pos \in DirtyProbe \ overlap :
       /\ GetIndex(pos) \in DOMAIN t1.vc <=> GetIndex(pos) \in DOMAIN m_vertexCounts
       /\ GetVertexCount(t1, GetIndex(pos)) = GetVertexCount(Terrain, GetIndex(pos))
       /\ GetIndex(pos) \in DOMAIN m_chunks3 =>
            t1.chunks[m_chunks3[GetIndex(pos)]] = chunks[m_chunks3[GetIndex(pos)]]
  /\ DOMAIN t1.vc \subseteq (DOMAIN m_vertexCounts) \cup {GetIndex(pos) : pos \in overlap}
  /\ \A h \in DOMAIN chunks :
       (\A pos \in overlap : GetChunk(Terrain, GetIndex(pos)) # h) => t1.chunks[h] = chunks[h]
  /\ t1.ch3 = m_chunks3 /\ t1.gl = m_generatedList /\ t1.jobs = m_terrainJobs

\* C7: for the dirty shapes at the start of Update, the dirty phase marks
\* every coordinate whose chunk AABB overlaps the previous or the current
\* AABB expanded by kSdfBoundary (geoDirty where the store has a chunk, the
\* Dirty sentinel elsewhere), leaves the other coordinates as they were,
\* clears the shape's dirty flag and sets its previous AABB to the current
C7_DirtyPropagation ==
  DirtyShapeIds # {} =>
    \A t1 \in {DirtyShapes(Terrain)} : DirtyPhaseOk(t1, DirtyOverlap)

\* a moved shape is dirty while the store holds a chunk its AABBs overlap
\* and a coordinate in view has no chunk
C7_MovedShapeAndChunk ==
  /\ MovedShapes # {}
  /\ \E pos \in DirtyOverlap : GetIndex(pos) \in DOMAIN m_chunks3
  /\ \E pos \in DirtyOverlap : GetIndex(pos) \notin DOMAIN m_chunks3
  /\ DirtyProbe \ DirtyOverlap # {}

\* job slot j holds a job after the step that it did not hold before, or
\* goes on with the job it held
StartedIn(j, jobs) == jobs[j].m_running /\ ~m_terrainJobs[j].m_running

HeldOver(j, jobs) ==
  /\ m_terrainJobs[j].m_hasJob
  /\ jobs[j].m_hasJob
  /\ jobs[j].m_chunk = m_terrainJobs[j].m_chunk

\* C13: when a job is started on a coordinate whose generated chunk is
\* geoDirty, the old chunk is in the store and the generated list after the
\* step, pool full or not, and it stays there while the job is in flight
C13_OldChunkKept ==
  [][/\ \A j \in DOMAIN m_terrainJobs, k \in DOMAIN m_chunks3 :
          (/\ StartedIn(j, m_terrainJobs')
           /\ GetIndex(chunks'[m_terrainJobs'[j].m_chunk].m_pos) = k
           /\ DirtyShapes(Terrain).chunks[m_chunks3[k]].m_geoDirty
           /\ \A i \in HeldJobs : GetIndex(JobPos(i)) # k)
          => /\ k \in DOMAIN m_chunks3'
             /\ m_chunks3'[k] = m_chunks3[k]
             /\ m_chunks3[k] \in m_generatedList'
     /\ \A j \in HeldJobs, k \in DOMAIN m_chunks3 :
          (HeldOver(j, m_terrainJobs') /\ GetIndex(JobPos(j)) = k)
          => /\ k \in DOMAIN m_chunks3'
             /\ m_chunks3'[k] = m_chunks3[k]
             /\ m_chunks3[k] \in m_generatedList'
    ]_vars

\* the chunk coordinates a caller asks for: those the scheduler meets and
\* those next to them, which are never touched
ProbeChunks == {<<x, y, z>> : x \in -1..2, y \in 0..1, z \in 0..1}

\* the world position of the voxel at localPos of the chunk at pos
WorldPos(pos, localPos) == Add3(Scale3(pos, kChunkSize), localPos)

\* what C19 gives for a voxel of the chunk with index ci
VoxelCase(ci, localPos) ==
  IF ci \notin DOMAIN m_vertexCounts THEN "Exterior"
  ELSE IF m_vertexCounts[ci] = kChunkCountEmpty THEN "Exterior"
  ELSE IF m_vertexCounts[ci] = kChunkCountDirty THEN "Unloaded"
  ELSE IF m_vertexCounts[ci] = kChunkCountInterior THEN "Interior"
  ELSE IF ci \notin DOMAIN m_chunks3 THEN "Unloaded"
  ELSE chunks[m_chunks3[ci]].m_t[localPos]

\* C19: GetVoxel is Exterior for a voxel whose chunk coordinate has no
\* vertex-count entry or the entry Empty, Unloaded for the entry Dirty and
\* for a real count without a chunk in the store, Interior for the entry
\* Interior, and otherwise the class the stored chunk holds at the voxel's
\* local position; before the first Update every voxel is Exterior
C19_GetVoxelCases ==
  \A pos \in ProbeChunks, localPos \in ChunkVoxels :
    /\ GetVoxel(Terrain, WorldPos(pos, localPos)) = VoxelCase(GetIndex(pos), localPos)
    /\ (m_vertexCounts = EmptyMap /\ m_chunks3 = EmptyMap) =>
         GetVoxel(Terrain, WorldPos(pos, localPos)) = "Exterior"

\* GetVoxel gives Surface for a voxel of a chunk in the store, Unloaded
\* for a coordinate with the entry Dirty and Exterior for a coordinate
\* without an entry
C19_ThreeAnswers ==
  /\ \E pos \in ProbeChunks, localPos \in ChunkVoxels :
       /\ GetIndex(pos) \in DOMAIN m_chunks3
       /\ GetVoxel(Terrain, WorldPos(pos, localPos)) = "Surface"
  /\ \E pos \in ProbeChunks :
       /\ GetIndex(pos) \in DOMAIN m_vertexCounts
       /\ m_vertexCounts[GetIndex(pos)] = kChunkCountDirty
       /\ GetVoxel(Terrain, WorldPos(pos, <<0, 0, 0>>)) = "Unloaded"
  /\ \E pos \in ProbeChunks :
       /\ GetIndex(pos) \notin DOMAIN m_vertexCounts
       /\ GetVoxel(Terrain, WorldPos(pos, <<0, 0, 0>>)) = "Exterior"

\* the step is an Update call of a pool without threads that has returned
\* without a failed assertion
InlineUpdate ==
  /\ m_threadPool.size = 0
  /\ ~aborted'
  /\ frame'.committed
  /\ m_center' \in ViewCenters

\* the finish loop has finished job slot j: the slot is free, the count the
\* job reported is recorded for the coordinate, and the job's chunk h is the
\* stored, listed chunk of the coordinate or, for a dropped count, is freed
FinishedAs(t, j, h, chunkIndex, vertexCount) ==
  /\ ~t.jobs[j].m_hasJob
  /\ GetVertexCount(t, chunkIndex) = vertexCount
  /\ IF Dropped(vertexCount)
     THEN h \notin DOMAIN t.chunks /\ chunkIndex \notin DOMAIN t.ch3
     ELSE GetChunk(t, chunkIndex) = h /\ h \in t.gl

\* C23: with a pool without threads an Update call leaves no job running
\* and nothing queued: the one job slot holds no job or the job the call
\* has started and run to completion; the job that waited at the call's
\* entry is finished by the call's finish loop, which records its count and
\* keeps or frees its chunk; and no edit of the SDF is pending after the
\* call
C23_InlineJob ==
  [][InlineUpdate =>
       /\ DOMAIN m_terrainJobs' = {1}
       /\ ~m_terrainJobs'[1].m_running
       /\ m_threadPool'.queued = {}
       /\ ~HasPending(sdf')
       /\ frame'.running = 0
       /\ \A j \in HeldJobs :
            FinishedAs(FinishJobs(DirtyShapes(Terrain), << >>).t, j,
                       m_terrainJobs[j].m_chunk, GetIndex(JobPos(j)),
                       m_terrainJobs[j].m_vertexCount)
    ]_vars

\* a pool without threads: the Update that has just returned has published
\* a chunk and has run the next job, which waits with a real count
C23_InlineJobWaits ==
  /\ m_threadPool.size = 0
  /\ frame.committed
  /\ m_generatedList # {}
  /\ \E j \in HeldJobs :
       /\ IsPendingFinish(m_terrainJobs[j])
       /\ IsRealCount(m_terrainJobs[j].m_vertexCount)

\* the store entries and the vertex counts of after are those of t, less
\* the store entries that refer to chunk
FreedEntryOnly(t, chunk, after) ==
  /\ after.vc = t.vc
  /\ DOMAIN after.ch3 = {k \in DOMAIN t.ch3 : t.ch3[k] # chunk}
  /\ \A k \in DOMAIN after.ch3 : after.ch3[k] = t.ch3[k]
  /\ chunk \notin DOMAIN after.chunks
  /\ chunk \notin after.gl

\* C24: FreeChunk of any live chunk removes the store entry of the chunk's
\* coordinate only when the entry refers to that chunk, leaves every other
\* store entry (so the entry of a different chunk at the same coordinate
\* stays) and leaves the vertex-count map as it was
C24_FreeChunkEntry ==
  \A chunk \in DOMAIN chunks : FreedEntryOnly(Terrain, chunk, FreeChunk(Terrain, chunk))

\* a job waits with a dropped count for a coordinate whose store entry is a
\* different, generated chunk: the finish loop will free the job's chunk
\* first
C24_NewChunkBesideStored ==
  \E j \in HeldJobs :
    /\ IsPendingFinish(m_terrainJobs[j])
    /\ Dropped(m_terrainJobs[j].m_vertexCount)
    /\ GetChunk(Terrain, GetIndex(JobPos(j))) \notin {0, m_terrainJobs[j].m_chunk}
    /\ GetChunk(Terrain, GetIndex(JobPos(j))) \in m_generatedList

(***************************************************************************)
(* Properties of the extractor                                             *)
(***************************************************************************)
\* C8: a job that waits for Update reports Empty or a real vertex count
\* 1..kMaxChunkVerts-1, a Generate call that has scanned every voxel holds
\* fewer than kMaxChunkVerts vertices, and no assertion has failed
C8_ReportedCounts ==
  /\ ~aborted
  /\ \A j \in DOMAIN m_terrainJobs :
       IsPendingFinish(m_terrainJobs[j]) =>
         \/ m_terrainJobs[j].m_vertexCount = kChunkCountEmpty
         \/ IsRealCount(m_terrainJobs[j].m_vertexCount)
  /\ (gen.active /\ ~gen.g.full /\ gen.n > VoxelCount) =>
       gen.g.vertexCount < kMaxChunkVerts

\* a job reports a real vertex count to Update after a Generate call that
\* ran to its end
C8_RealCountReported ==
  /\ ~gen.active
  /\ ~gen.full
  /\ \E j \in DOMAIN m_terrainJobs :
       IsPendingFinish(m_terrainJobs[j]) /\ IsRealCount(m_terrainJobs[j].m_vertexCount)

\* the Generate call in progress stands in front of a sign-changing edge
\* and four more vertices or six more indices do not fit
GenAtFullEdge ==
  /\ gen.active
  /\ ~gen.g.returned
  /\ gen.n <= VoxelCount
  /\ EdgeBit(gen.field, gen.pos, VoxelAt(gen.n), gen.e)
  /\ \/ gen.g.vertexCount + 4 > kMaxChunkVerts
     \/ gen.g.indexCount + 6 > kMaxChunkIndices

\* the chunk record h is gone after the step, or is a new record that a
\* job started in the step works on
FreedIn(h, chs, gl, jobs) ==
  /\ h \notin gl
  /\ h \in DOMAIN chs =>
       /\ chs[h].m_vertices = 0
       /\ \E j \in DOMAIN jobs : jobs[j].m_chunk = h /\ jobs[j].m_running

\* C9: at a sign-changing edge without room the next step of Generate
\* returns with vertex count Empty and index count 0 and writes nothing;
\* the vertices and the indices written never pass kMaxChunkVerts and
\* kMaxChunkIndices; the job
\* then reports 0 and 0, and the Update that finishes it frees the job's
\* chunk and leaves Empty (no entry) and no chunk for the coordinate
C9_CapacityAbort ==
  [][/\ (GenAtFullEdge /\ gen' # gen) =>
          /\ gen'.g.returned /\ gen'.g.full
          /\ gen'.g.vertexCountOut = kChunkCountEmpty /\ gen'.g.indexCountOut = 0
          /\ gen'.g.verticesOut = gen.g.verticesOut /\ gen'.g.indexOut = gen.g.indexOut
     /\ gen'.active =>
          /\ Len(gen'.g.verticesOut) = gen'.g.vertexCount
          /\ Len(gen'.g.indexOut) = gen'.g.indexCount
          /\ Len(gen'.g.verticesOut) <= kMaxChunkVerts
          /\ Len(gen'.g.indexOut) <= kMaxChunkIndices
     /\ (gen.active /\ gen.g.full /\ ~gen'.active) =>
          /\ m_terrainJobs'[gen.job].m_vertexCount = kChunkCountEmpty
          /\ m_terrainJobs'[gen.job].m_indexCount = 0
          /\ IsPendingFinish(m_terrainJobs'[gen.job])
     /\ \A j \in HeldJobs :
          (~gen.active /\ gen.full /\ IsPendingFinish(m_terrainJobs[j])
             /\ m_terrainJobs'[j] # m_terrainJobs[j]) =>
            /\ GetIndex(JobPos(j)) \notin DOMAIN m_vertexCounts'
            /\ GetIndex(JobPos(j)) \notin DOMAIN m_chunks3'
            /\ FreedIn(m_terrainJobs[j].m_chunk, chunks', m_generatedList', m_terrainJobs')
    ]_vars

\* Update has finished the job of a Generate call that returned from its
\* capacity test: the coordinate has no entry and the pool is empty again
C9_AbortedJobFinished ==
  /\ ~gen.active
  /\ gen.full
  /\ HeldJobs = {}
  /\ m_chunkPool.m_length = 0
  /\ m_vertexCounts # EmptyMap

\* the grid points Generate samples for the chunk at pos
SampledPoints(pos) ==
  {Add3(Scale3(pos, kChunkSize), <<x, y, z>>) :
     x \in -1..(kChunkSize + 1), y \in -1..(kChunkSize + 1), z \in -1..(kChunkSize + 1)}

\* the chunk at pos lies entirely inside, entirely outside the surface; a
\* sample on the surface counts as outside, as Generate nudges it
AllInside(field, pos) == \A p \in SampledPoints(pos) : SdfGetValue(field, p) < 0
AllOutside(field, pos) == \A p \in SampledPoints(pos) : Nudge(SdfGetValue(field, p)) > 0

\* C10: the Update that finishes the job of a chunk entirely inside the
\* surface records Interior for the coordinate, and Empty for a chunk
\* entirely outside; in both cases the job's chunk is freed and the store
\* has no chunk for the coordinate
C10_InteriorAndEmpty ==
  [][\A j \in HeldJobs :
       (~gen.active /\ IsPendingFinish(m_terrainJobs[j])
          /\ m_terrainJobs'[j] # m_terrainJobs[j]) =>
         /\ AllInside(Field(sdf), JobPos(j)) =>
              /\ GetIndex(JobPos(j)) \in DOMAIN m_vertexCounts'
              /\ m_vertexCounts'[GetIndex(JobPos(j))] = kChunkCountInterior
         /\ AllOutside(Field(sdf), JobPos(j)) =>
              GetIndex(JobPos(j)) \notin DOMAIN m_vertexCounts'
         /\ (AllInside(Field(sdf), JobPos(j)) \/ AllOutside(Field(sdf), JobPos(j))) =>
              /\ GetIndex(JobPos(j)) \notin DOMAIN m_chunks3'
              /\ FreedIn(m_terrainJobs[j].m_chunk, chunks', m_generatedList', m_terrainJobs')
    ]_vars

\* the Generate call in progress has returned, and not from its capacity
\* test
GenSucceeded == gen.active /\ gen.g.returned /\ ~gen.g.full

\* C15: after a successful Generate every Surface voxel of the chunk has an
\* index that is not the sentinel and is below the returned vertex count
C15_SurfaceHasIndex ==
  GenSucceeded =>
    \A v \in ChunkVoxels :
      gen.g.m_t[v] = "Surface" =>
        /\ gen.g.m_i[v] # kInvalidTerrainIndex
        /\ gen.g.m_i[v] < gen.g.vertexCountOut

\* a successful Generate has left a Surface voxel and a voxel of another
\* class in the chunk
C15_SurfaceVoxelGenerated ==
  /\ GenSucceeded
  /\ \E v \in ChunkVoxels : gen.g.m_t[v] = "Surface"
  /\ \E v \in ChunkVoxels : gen.g.m_t[v] # "Surface"

\* C16: after a successful Generate every Exterior or Interior voxel has
\* the sentinel index; a voxel that has received a vertex is Surface and
\* in the rest of the call keeps its index and its class
C16_UnindexedOffSurface ==
  [][/\ (gen' # gen /\ gen'.active /\ gen'.g.returned /\ ~gen'.g.full) =>
          \A v \in ChunkVoxels :
            gen'.g.m_t[v] \in {"Exterior", "Interior"} =>
              gen'.g.m_i[v] = kInvalidTerrainIndex
     /\ (gen' # gen /\ gen.active /\ gen'.active) =>
          \A v \in ChunkVoxels :
            gen.g.m_i[v] # kInvalidTerrainIndex =>
              /\ gen.g.m_t[v] = "Surface"
              /\ gen'.g.m_t[v] = "Surface"
              /\ gen'.g.m_i[v] = gen.g.m_i[v]
    ]_vars

\* a successful Generate has left a voxel with a vertex from an edge of an
\* earlier voxel and no sign-changing edge of its own: the scan has passed
\* it with the classification due
C16_VertexVoxelRescanned ==
  /\ GenSucceeded
  /\ \E v \in ChunkVoxels :
       /\ gen.g.m_i[v] # kInvalidTerrainIndex
       /\ gen.g.m_t[v] = "Surface"
       /\ edgeBits(gen.field, gen.pos, v) = {}

\* the three indices of triangle t (from 0) of the index array
Triangle(indexOut, t) == <<indexOut[3 * t + 1], indexOut[3 * t + 2], indexOut[3 * t + 3]>>

\* C17: after a successful Generate the index count is a multiple of 6 and
\* every triangle of the index array has three pairwise distinct indices
\* below the returned vertex count
C17_TrianglesWellFormed ==
  GenSucceeded =>
    /\ gen.g.indexCountOut % 6 = 0
    /\ Len(gen.g.indexOut) = gen.g.indexCountOut
    /\ \A t \in 0..((gen.g.indexCountOut \div 3) - 1) :
         /\ Triangle(gen.g.indexOut, t)[1] # Triangle(gen.g.indexOut, t)[2]
         /\ Triangle(gen.g.indexOut, t)[1] # Triangle(gen.g.indexOut, t)[3]
         /\ Triangle(gen.g.indexOut, t)[2] # Triangle(gen.g.indexOut, t)[3]
         /\ \A c \in 1..3 : Triangle(gen.g.indexOut, t)[c] < gen.g.vertexCountOut

\* a successful Generate has returned triangles of both windings that
\* share vertices
C17_SharedVertexTriangles ==
  /\ GenSucceeded
  /\ gen.g.indexCountOut >= 12
  /\ gen.g.vertexCountOut < 4 * (gen.g.indexCountOut \div 6)

\* C18: after a successful Generate every vertex has exactly one of its
\* four material channels at 255 and the others at 0, whatever the
\* material tag
C18_OneHotMaterial ==
  GenSucceeded =>
    \A i \in DOMAIN gen.g.materials :
      /\ Cardinality({c \in 0..3 : gen.g.materials[i][c] = 255}) = 1
      /\ \A c \in 0..3 : gen.g.materials[i][c] \in {0, 255}

(***************************************************************************)
(* Properties of the raycasts                                              *)
(***************************************************************************)
\* C20: the result of RaycastFast and of Raycast has distance, posf and
\* normal at +infinity when hit is false, and type Surface when hit is
\* true
C20_MissAndHit ==
  result.fn \in {"RaycastFast", "Raycast"} =>
    /\ ~result.hit =>
         /\ result.distance = "inf"
         /\ result.posf = "inf"
         /\ result.normal = "inf"
    /\ result.hit => result.type = "Surface"

\* the voxels the grid walk of a ray examines: from the start voxel to the
\* hit voxel of the result r, or to the voxel before the out sentinel
WalkVoxels(r, start, axis, sign, len) ==
  IF len = 0 THEN {}
  ELSE {[start EXCEPT ![axis] = c] :
          c \in IF sign > 0
                THEN start[axis]..(IF r.hit THEN r.posi[axis]
                                   ELSE RayOut(start[axis], sign, len) - 1)
                ELSE (IF r.hit THEN r.posi[axis]
                      ELSE RayOut(start[axis], sign, len) + 1)..start[axis]}

\* the flag of the result r is set exactly if the walk has examined an
\* Unloaded voxel
TouchedIffUnloaded(r, start, axis, sign, len) ==
  r.touchedUnloaded =
    (\E pos \in WalkVoxels(r, start, axis, sign, len) : GetVoxel(Terrain, pos) = "Unloaded")

\* C21: the result of RaycastFast and of Raycast has touchedUnloaded set if
\* a voxel the grid walk has examined is Unloaded, with and without a hit,
\* and cleared if none is
C21_TouchedUnloaded ==
  \A start \in RayStarts, axis \in 1..3, sign \in {-1, 1}, len \in RayLengths :
    /\ \A allowSourceCollision \in BOOLEAN :
         TouchedIffUnloaded(RaycastFast(Terrain, start, axis, sign, len, allowSourceCollision),
                            start, axis, sign, len)
    /\ \A crossing \in SUBSET RayVoxels(start[axis], sign, len) :
         TouchedIffUnloaded(Raycast(Terrain, start, axis, sign, len, crossing),
                            start, axis, sign, len)

\* a raycast has passed an Unloaded voxel and then hit a Surface voxel
C21_UnloadedThenHit ==
  /\ result.fn \in {"RaycastFast", "Raycast"}
  /\ result.hit
  /\ result.touchedUnloaded
  /\ GetVoxel(Terrain, result.posi) = "Surface"

\* the voxel positions a query is made for, two chunks to either side of 0
PosProbes ==
  {<<x, y, z>> : x \in (-2 * kChunkSize)..(2 * kChunkSize - 1),
                 y \in (-2 * kChunkSize)..(2 * kChunkSize - 1),
                 z \in (-2 * kChunkSize)..(2 * kChunkSize - 1)}

\* C22: for every voxel position, also with negative components, and for
\* the voxel of the last raycast result, GetPosFromWorld gives the chunk coordinate floor(pos / kChunkSize) and
\* a local position from 0 to kChunkSize - 1 on every axis with
\* chunkPos * kChunkSize + localPos = pos
C22_PosFromWorld ==
  \A pos \in PosProbes \cup {result.posi} :
    /\ \A i \in 1..3 :
         /\ ChunkPosOf(pos)[i] * kChunkSize <= pos[i]
         /\ pos[i] < (ChunkPosOf(pos)[i] + 1) * kChunkSize
         /\ LocalPosOf(pos)[i] >= 0
         /\ LocalPosOf(pos)[i] < kChunkSize
    /\ Add3(Scale3(ChunkPosOf(pos), kChunkSize), LocalPosOf(pos)) = pos

\* a raycast has ended without a hit on an Unloaded voxel with a negative
\* coordinate, next to a voxel at 0 that is not Unloaded
C22_NegativeVoxelExamined ==
  /\ result.fn \in {"RaycastFast", "Raycast"}
  /\ ~result.hit
  /\ result.type = "Unloaded"
  /\ GetVoxel(Terrain, <<-1, 0, 0>>) = "Unloaded"
  /\ GetVoxel(Terrain, <<0, 0, 0>>) # "Unloaded"
  /\ ChunkPosOf(<<-1, 0, 0>>) = <<-1, 0, 0>>
  /\ LocalPosOf(<<-1, 0, 0>>) = <<kChunkSize - 1, 0, 0>>

(***************************************************************************)
(* Properties of the viewer that settles                                   *)
(***************************************************************************)
\* C11: with the viewer settled and the shapes left alone, the repeated
\* Update calls and the workers reach a state from which no step changes
\* the chunk store, the vertex-count map, the generated list, the chunk
\* records or the job slots: no job is started and no chunk freed or stolen
C11_NoEndlessCycle ==
  <>Settled =>
    <>[][UNCHANGED <<m_chunks3, m_vertexCounts, m_generatedList, chunks, m_chunkPool,
                     m_terrainJobs>>]_vars

\* the viewer has settled where more coordinates cross the surface than the
\* pool has records, the pool is full of generated chunks, no job is left
\* and a coordinate in view waits without a chunk
C11_SettledFull ==
  /\ m_center = WideCenter
  /\ HeldJobs = {}
  /\ Cardinality(m_generatedList) = kMaxLoadedChunks
  /\ \E pos \in InView(Terrain, WideCenter, kChunkSize) :
       GetIndex(pos) \notin DOMAIN m_chunks3

\* what an Update with the settled viewer's arguments would leave, for
\* every order std::sort may produce
TerrainsAfterUpdate ==
  {UpdateResult(Terrain, DirtyShapes(Terrain), m_center, kChunkSize, sorts, {}).t :
     sorts \in SortedBy(ChunkMap(DirtyShapes(Terrain), m_center, kChunkSize))}

\* the viewer has settled, no shape has a pending or unprocessed edit, the
\* workers have drained and Update starts no more jobs
Drained ==
  /\ Settled
  /\ ~aborted
  /\ ~HasPending(sdf)
  /\ DirtyShapeIds = {}
  /\ m_threadPool.queued = {}
  /\ HeldJobs = {}
  /\ {t.jobs : t \in TerrainsAfterUpdate} = {m_terrainJobs}

\* the coordinates in view for which the field of the moment gives a mesh
MeshInView ==
  {pos \in InView(Terrain, m_center, kChunkSize) :
     IsRealCount(GenerateLookup(Field(sdf), pos).vertexCountOut)}

\* C12: when more coordinates in view produce a mesh than the pool has
\* records, then once the workers have drained and Update starts no more
\* jobs exactly kMaxLoadedChunks chunks are generated, and no coordinate in
\* view without a chunk scores strictly lower than a generated chunk
C12_BestChunksGenerated ==
  (Drained /\ Cardinality(MeshInView) > kMaxLoadedChunks) =>
    /\ Cardinality(m_generatedList) = kMaxLoadedChunks
    /\ \A pos \in InView(Terrain, m_center, kChunkSize) :
         GetIndex(pos) \notin DOMAIN m_chunks3 =>
           \A h \in m_generatedList :
             ~(GetChunkScore(Terrain, pos, m_center)
                 < GetChunkScore(Terrain, chunks[h].m_pos, m_center))

\* the pool is at equilibrium with three meshing coordinates in view, and
\* a coordinate that had a chunk before the viewer moved has lost it
C12_Equilibrium ==
  /\ Drained
  /\ Cardinality(MeshInView) > kMaxLoadedChunks
  /\ \A h \in m_generatedList : chunks[h].m_pos \in MeshInView
  /\ \E k \in DOMAIN m_vertexCounts :
       /\ IsRealCount(m_vertexCounts[k])
       /\ k \notin {GetIndex(pos) : pos \in MeshInView}

\* the coordinates with a chunk in the store that are not in view
StoredOutOfView(center) ==
  {k \in DOMAIN m_chunks3 :
     chunks[m_chunks3[k]].m_pos \notin InView(Terrain, center, kChunkSize)}

\* C14 as stated: a generated chunk out of view is freed by the Update
\* calls that follow, so where a further Update changes nothing no chunk
\* out of view is left
C14_OutOfViewFreed ==
  (Drained /\ TerrainsAfterUpdate = {Terrain}) => StoredOutOfView(m_center) = {}

\* the job slots that hold, after the step, a job that Update has started
\* for a coordinate that scores better than coordinate k
StartedBetter(k, center) ==
  {j \in DOMAIN m_terrainJobs :
     /\ m_terrainJobs'[j].m_hasJob
     /\ ~m_terrainJobs[j].m_running
     /\ GetChunkScore(DirtyShapes(Terrain), chunks'[m_terrainJobs'[j].m_chunk].m_pos, center)
          < GetChunkScore(DirtyShapes(Terrain), chunks[m_chunks3[k]].m_pos, center)}

\* the job slots that hold, after the step, a job that Update has started
\* to regenerate a chunk that an edit has marked dirty
StartedDirty ==
  {j \in DOMAIN m_terrainJobs :
     /\ m_terrainJobs'[j].m_hasJob
     /\ ~m_terrainJobs[j].m_running
     /\ \E h \in DOMAIN chunks :
          /\ chunks[h].m_pos = chunks'[m_terrainJobs'[j].m_chunk].m_pos
          /\ h \in m_generatedList
          /\ DirtyShapes(Terrain).chunks[h].m_geoDirty}

\* C14 amended: a generated chunk out of view stays in the store and the
\* generated list, with its vertices and classes; its coordinate loses it
\* only in an Update that on a full pool starts a job for a better-scored
\* coordinate or a job that regenerates a dirty chunk (the record is
\* stolen) or that finishes a job of the coordinate itself
C14_FreedOnlyWhenStolen ==
  [][\A k \in StoredOutOfView(m_center') :
       \/ /\ k \in DOMAIN m_chunks3'
          /\ m_chunks3'[k] = m_chunks3[k]
          /\ m_chunks3[k] \in m_generatedList'
          /\ [chunks'[m_chunks3[k]] EXCEPT !.m_geoDirty = FALSE]
               = [chunks[m_chunks3[k]] EXCEPT !.m_geoDirty = FALSE]
       \/ /\ m_chunkPool'.m_length = kMaxLoadedChunks
          /\ StartedBetter(k, m_center') # {} \/ StartedDirty # {}
       \/ \E i \in HeldJobs : IsPendingFinish(m_terrainJobs[i]) /\ GetIndex(JobPos(i)) = k
    ]_vars

\* the settled viewer's Update has stolen the record of a chunk out of
\* view: its coordinate keeps a real vertex count without a chunk
C14_StolenOutOfView ==
  /\ Settled
  /\ \E k \in DOMAIN m_vertexCounts :
       /\ IsRealCount(m_vertexCounts[k])
       /\ k \notin DOMAIN m_chunks3
       /\ k \notin {GetIndex(pos) : pos \in InView(Terrain, m_center, kChunkSize)}

\* the terrain and the sorted list at the start of the dispatch loop of an
\* Update call made now, no worker completing during the call
PreDispatchOf(st) ==
  [ t |-> IF PoolIsIdle(st.t.tp) THEN UpdatePending(st.t) ELSE st.t, sorts |-> st.sorts ]

PreDispatch(center, radius) ==
  {PreDispatchOf(FinishJobs(DirtyShapes(Terrain), sorts)) :
     sorts \in SortedBy(ChunkMap(DirtyShapes(Terrain), center, radius))}

\* the chunk the dispatch loop finds for an entry of the sorted list
EntryChunk(t, chunkSort) ==
  IF chunkSort.c # 0 THEN chunkSort.c ELSE GetChunk(t, GetIndex(chunkSort.pos))

\* the entry is a dirty refresh
EntryDirty(t, chunkSort) ==
  EntryChunk(t, chunkSort) # 0 /\ t.chunks[EntryChunk(t, chunkSort)].m_geoDirty

\* the entries the dispatch loop would start a job for, had it a slot
EntriesToStart(t, sorts) ==
  {i \in DOMAIN sorts :
     /\ EntryChunk(t, sorts[i]) = 0 \/ EntryDirty(t, sorts[i])
     /\ ~AlreadyQueued(t, sorts[i].pos)}

\* the last entry of the sorted list that has a chunk, 0 when there is none
LastWithChunk(sorts) ==
  IF \E k \in DOMAIN sorts : sorts[k].c # 0
  THEN CHOOSE k \in DOMAIN sorts :
         sorts[k].c # 0 /\ \A m \in DOMAIN sorts : m > k => sorts[m].c = 0
  ELSE 0

\* the walk for entry i has stolen the chunk of entry last
MayStealFrom(sorts, i, chunkDirty, last) ==
  last # 0 /\ (chunkDirty \/ sorts[last].score > sorts[i].score)

\* r is what the failed AllocChunk and the walk for entry i have left of t
WalkOutcome(t, sorts, i, chunkDirty, last, r) ==
  IF MayStealFrom(sorts, i, chunkDirty, last)
  THEN /\ r.chunk # 0
       /\ ~r.t.aborted
       /\ t.gl \ r.t.gl = {sorts[last].c}
       /\ DOMAIN t.chunks \ DOMAIN r.t.chunks \subseteq {sorts[last].c}
       /\ r.t.chunks[r.chunk].m_pos = sorts[i].pos
  ELSE /\ r.chunk = 0
       /\ r.t = t
       /\ \A jobIndex \in DOMAIN t.jobs : DispatchStart(r, i, jobIndex) = t

WalksOf(d) ==
  \A i \in EntriesToStart(d.t, d.sorts) :
    AllocChunk(d.t, d.sorts[i].pos).chunk = 0
      => WalkOutcome(d.t, d.sorts, i, EntryDirty(d.t, d.sorts[i]), LastWithChunk(d.sorts),
                     AllocOrSteal(d.t, d.sorts, i, EntryDirty(d.t, d.sorts[i]),
                                  AllocChunk(d.t, d.sorts[i].pos)))

\* the viewer positions of the walks examined
WalkCenters == ViewCenters \cup {StartCenter}

\* C28: when AllocChunk fails in the dispatch loop for an entry of the
\* sorted list, the walk frees exactly the chunk of the last entry that has
\* a chunk when that entry scores strictly higher or the request is a dirty
\* refresh, and the request gets a record; otherwise it frees nothing,
\* leaves the terrain as it is, no job is started and the loop ends
C28_StealOneOrNone ==
  ~aborted =>
    \A center \in WalkCenters :
      \A d \in PreDispatch(center, kChunkSize) : ~d.t.aborted => WalksOf(d)

\* an Update made now with the viewer at center meets a failed AllocChunk
\* for a request, dirty or not, with a chunk left in the sorted list that
\* the walk steals or leaves
WalkCase(center, steal, dirty) ==
  \E d \in PreDispatch(center, kChunkSize) :
    /\ ~d.t.aborted
    /\ \E i \in EntriesToStart(d.t, d.sorts) :
         /\ AllocChunk(d.t, d.sorts[i].pos).chunk = 0
         /\ EntryDirty(d.t, d.sorts[i]) = dirty
         /\ LastWithChunk(d.sorts) # 0
         /\ MayStealFrom(d.sorts, i, dirty, LastWithChunk(d.sorts)) = steal

\* the pool is full: for the viewer at StartCenter the walk steals a chunk
\* that scores higher than the request, for the viewer at NearCenter it
\* refuses
C28_StolenAndRefused ==
  /\ ~aborted
  /\ WalkCase(StartCenter, TRUE, FALSE)
  /\ WalkCase(NearCenter, FALSE, FALSE)

\* job slot j holds after the step a job that the step has started
JobStartedIn(j) ==
  \/ StartedIn(j, m_terrainJobs')
  \/ /\ m_threadPool.size = 0
     /\ m_terrainJobs'[j].m_hasJob
     /\ m_terrainJobs'[j] # m_terrainJobs[j]

\* C29: a step that starts a job leaves no edit of the SDF pending, and
\* when an edit was pending before the step the call has passed its idle
\* test and committed it; so an Update that finds the pool busy and edits
\* pending starts no job
C29_NoStartWhilePending ==
  [][(\E j \in DOMAIN m_terrainJobs : JobStartedIn(j)) =>
       /\ ~HasPending(sdf')
       /\ HasPending(sdf) => frame'.committed /\ frame'.hadPending
    ]_vars

\* an edit is pending and a worker is busy: an Update made now starts no
\* job, though its dispatch loop would start one
C29_StartWithheld ==
  /\ ~aborted
  /\ HasPending(sdf)
  /\ ~PoolIsIdle(m_threadPool)
  /\ \E d \in PreDispatch(m_center, kChunkSize) :
       /\ ~d.t.aborted
       /\ ~PoolIsIdle(d.t.tp)
       /\ UpdateCommit(d.t, d.sorts, FALSE).jobs = m_terrainJobs
       /\ Dispatch(d.t, d.sorts, 1).jobs # m_terrainJobs

\* the owner calls Update again and again
UpdateRepeated == []<>(calls = 0) /\ []<>(calls = 1)

\* C30: when the owner keeps calling Update and the workers make progress,
\* a pending edit of the SDF is eventually committed
C30_EventuallyCommitted ==
  UpdateRepeated => (HasPending(sdf) ~> ~HasPending(sdf))

\* an edit is pending while every worker of the pool runs a job: the commit
\* has to wait for all of them
C30_PendingWhileAllBusy ==
  /\ ~aborted
  /\ HasPending(sdf)
  /\ m_threadPool.size = MaxThreads
  /\ Cardinality(m_threadPool.queued) = m_threadPool.size

(***************************************************************************)
(* Properties of the array                                                 *)
(***************************************************************************)
\* the elements of an array, first to last
Elements(a) == [i \in 1..a.m_length |-> a.m_array[i - 1]]

\* the elements of seq that are not in testFn, in their order
RECURSIVE Kept(_, _)
Kept(seq, testFn) ==
  IF seq = << >> THEN << >>
  ELSE IF Head(seq) \in testFn THEN Kept(Tail(seq), testFn)
  ELSE <<Head(seq)>> \o Kept(Tail(seq), testFn)

\* the least slot of a that holds value
FirstOccurrence(a, value) ==
  CHOOSE i \in 0..(a.m_length - 1) :
    a.m_array[i] = value /\ \A k \in 0..(i - 1) : a.m_array[k] # value

\* the step is a call of RemoveAll or RemoveAllFn
RemoveAllStep == call'.fn \in {"RemoveAll", "RemoveAllFn"}

\* C25: RemoveAll(value) and RemoveAllFn(pred) remove every matching
\* element and keep the others in their order, return the number removed,
\* reduce Length by it and leave Size; afterwards Find of a removed value
\* is -1 and Find of a remaining value is the slot of its first occurrence
C25_RemoveAll ==
  [][RemoveAllStep =>
       /\ Elements(array') = Kept(Elements(array), call'.testFn)
       /\ call'.ret = Cardinality({i \in 0..(array.m_length - 1) :
                                     array.m_array[i] \in call'.testFn})
       /\ array'.m_length = array.m_length - call'.ret
       /\ array'.m_size = array.m_size
       /\ \A value \in call'.testFn : Find(array', value) = -1
       /\ \A value \in ArrayValues :
            (\E i \in 0..(array'.m_length - 1) : array'.m_array[i] = value)
              => Find(array', value) = FirstOccurrence(array', value)
    ]_vars

\* RemoveAll has removed two elements and has left two different elements
C25_RemovedTwoOfFour ==
  /\ call.fn = "RemoveAll"
  /\ call.ret = 2
  /\ array.m_length = 2
  /\ array.m_array[0] # array.m_array[1]

\* the step is a call of Insert
InsertStep == call'.fn = "Insert"

\* C26: Insert(index, value) with index <= Length puts value at index,
\* moves the elements from index on one slot later in their order, leaves
\* the elements before index, adds 1 to Length and returns a reference to
\* the slot index, which holds value
C26_Insert ==
  [][InsertStep =>
       /\ call'.arg <= array.m_length
       /\ Elements(array') =
            SubSeq(Elements(array), 1, call'.arg) \o <<call'.value>>
              \o SubSeq(Elements(array), call'.arg + 1, array.m_length)
       /\ array'.m_length = array.m_length + 1
       /\ call'.ret = call'.arg
       /\ array'.m_array[call'.ret] = call'.value
    ]_vars

\* Insert at the beginning has moved three elements, not all equal, into
\* storage it had to enlarge
C26_InsertedAtFront ==
  /\ call.fn = "Insert"
  /\ call.arg = 0
  /\ array.m_length = 4
  /\ array.m_size = 4
  /\ array.m_array[1] # array.m_array[3]
  /\ array.m_array[0] # array.m_array[1]

\* the least power of two that is at least n
SmallestPowerOfTwo(n) ==
  CHOOSE p \in {2 ^ k : k \in 0..30} :
    p >= n /\ \A q \in {2 ^ k : k \in 0..30} : q >= n => p <= q

\* a Reserve step enlarges Size to the power of two or changes nothing, and
\* keeps Length and the elements; a Clear step empties the array and keeps
\* Size
ReserveClearStep ==
  /\ call'.fn = "Reserve" =>
       /\ call'.arg > array.m_size => array'.m_size = SmallestPowerOfTwo(call'.arg)
       /\ call'.arg <= array.m_size => array' = array
       /\ array'.m_length = array.m_length
       /\ Elements(array') = Elements(array)
  /\ call'.fn = "Clear" => array'.m_length = 0 /\ array'.m_size = array.m_size

\* the array of a constructor step has the Length the constructor gives
ConstructedLength ==
  /\ call'.fn = "ArraySized" => array'.m_length = 0
  /\ call'.fn = "ArrayFilled" =>
       /\ array'.m_length = call'.arg
       /\ \A i \in 0..(call'.arg - 1) : array'.m_array[i] = call'.value

\* the step is a constructor call
ConstructorStep == call'.fn \in {"ArraySized", "ArrayFilled"}

\* C27 as stated: Reserve and Clear as above, and an array constructed with
\* a size or a length has Size equal to the smallest power of two that is
\* at least that number
C27_SizeAlwaysPowerOfTwo ==
  [][/\ ReserveClearStep
     /\ ConstructorStep =>
          ConstructedLength /\ array'.m_size = SmallestPowerOfTwo(call'.arg)
    ]_vars

\* C27, amended: Reserve and Clear as above, and an array constructed with
\* a size or a length has Size equal to the smallest power of two that is
\* at least that number when the number is positive, and Size 0 (no
\* storage) when it is 0
C27_SizePowerOfTwoOrNone ==
  [][/\ ReserveClearStep
     /\ ConstructorStep =>
          /\ ConstructedLength
          /\ array'.m_size =
               IF call'.arg = 0 THEN 0 ELSE SmallestPowerOfTwo(call'.arg)
    ]_vars

\* Reserve of 17 has enlarged the storage of an array of three elements to
\* 32 slots
C27_ReservedWithElements ==
  /\ call.fn = "Reserve"
  /\ call.arg = 17
  /\ array.m_size = 32
  /\ array.m_length = 3
  /\ array.m_array[0] # array.m_array[2]

(***************************************************************************)
(* Properties of the regeneration                                          *)
(***************************************************************************)
\* the coordinates of the view window that pass the distance test
Window(center, radius) ==
  {pos \in {Add3(<<i, j, k>>, ViewChunk(center)) :
              i \in (0 - radius \div kChunkSize)..(radius \div kChunkSize - 1),
              j \in (0 - radius \div kChunkSize)..(radius \div kChunkSize - 1),
              k \in (0 - radius \div kChunkSize)..(radius \div kChunkSize - 1)} :
     ~(CenterDistance2(pos, center) >= 4 * radius * radius)}

\* the caller edits the SDF in the step: a shape is created, moved or
\* destroyed
EditStep ==
  \E i \in ShapeIds :
    \/ sdf'[i].state # sdf[i].state /\ sdf'[i].state \in {"pendingCreate", "pendingDestroy"}
    \/ sdf'[i].state = "live" /\ sdf[i].state = "live" /\ sdf'[i].aabb # sdf[i].aabb

\* the coordinate waits for a regeneration: Dirty sentinel, or a generated
\* chunk with geoDirty set
DirtyAt(pos) ==
  \/ GetVertexCount(Terrain, GetIndex(pos)) = kChunkCountDirty
  \/ /\ GetChunk(Terrain, GetIndex(pos)) # 0
     /\ chunks[GetChunk(Terrain, GetIndex(pos))].m_geoDirty

\* the coordinate has the result of a finished job: a generated chunk that
\* is not dirty, or an Empty or Interior record
RegeneratedAt(pos) ==
  \/ GetVertexCount(Terrain, GetIndex(pos)) \in {kChunkCountEmpty, kChunkCountInterior}
  \/ /\ GetChunk(Terrain, GetIndex(pos)) \in m_generatedList
     /\ ~chunks[GetChunk(Terrain, GetIndex(pos))].m_geoDirty
     /\ IsRealCount(GetVertexCount(Terrain, GetIndex(pos)))

Enumerated(center, radius) ==
  {e.pos : e \in ChunkMap(DirtyShapes(Terrain), center, radius)}

EnumeratedBare(center, radius) ==
  {e.pos : e \in {x \in ChunkMap(DirtyShapes(Terrain), center, radius) : x.c = 0}}

\* the coordinate has no vertex-count entry and no chunk
Unknown(pos) ==
  GetIndex(pos) \notin DOMAIN m_vertexCounts /\ GetIndex(pos) \notin DOMAIN m_chunks3

\* C32 as stated: a coordinate of the window without a vertex-count entry
\* and without a chunk has an entry without a chunk in the sorted list of
\* the next Update
C32_UnknownEnumerated ==
  \A center \in ViewCenters : \A pos \in Window(center, kChunkSize) :
    Unknown(pos) => pos \in EnumeratedBare(center, kChunkSize)

\* C32, amended: a coordinate of the window has an entry without a chunk in
\* the sorted list of the next Update exactly when it carries the Dirty
\* sentinel after the dirty phase of that Update, which only an edit of the
\* SDF that covers it sets; a coordinate without a vertex-count entry reads
\* Empty, is passed over and gets no entry at all
C32_DirtyEnumerated ==
  \A center \in ViewCenters : \A pos \in Window(center, kChunkSize) :
    /\ pos \in EnumeratedBare(center, kChunkSize)
         <=> /\ GetIndex(pos) \notin DOMAIN DirtyShapes(Terrain).ch3
             /\ \/ GetVertexCount(DirtyShapes(Terrain), GetIndex(pos)) = kChunkCountDirty
                \/ IsRealCount(GetVertexCount(DirtyShapes(Terrain), GetIndex(pos)))
    /\ GetIndex(pos) \notin DOMAIN DirtyShapes(Terrain).vc
         => pos \notin Enumerated(center, kChunkSize)

\* an Update has just returned with the viewer at a view centre: a shape
\* has been committed and a coordinate of the window is dirty and waits
\* without a chunk, while a coordinate next to the window, which no edit
\* has touched, has no entry
C32_DirtyWaits ==
  /\ ~aborted
  /\ frame.committed
  /\ m_center \in ViewCenters
  /\ \E pos \in Window(m_center, kChunkSize) :
       /\ GetVertexCount(Terrain, GetIndex(pos)) = kChunkCountDirty
       /\ pos \in EnumeratedBare(m_center, kChunkSize)
  /\ \E pos \in ProbeChunks : Unknown(pos) /\ pos \notin Enumerated(m_center, kChunkSize)

\* squared distance from the viewer to the box of a chunk
AabbDistance2(pos, center) ==
  LET lo(i) == kChunkSize * pos[i]
      d(i) == IF center[i] < lo(i) THEN lo(i) - center[i]
              ELSE IF center[i] > lo(i) + kChunkSize THEN center[i] - (lo(i) + kChunkSize)
              ELSE 0
  IN d(1) * d(1) + d(2) * d(2) + d(3) * d(3)

\* the vertex count of the coordinate, after the dirty phase of an Update
\* made now, is neither Empty nor Interior
Countable(pos) ==
  GetVertexCount(DirtyShapes(Terrain), GetIndex(pos))
    \notin {kChunkCountEmpty, kChunkCountInterior}

\* the sorted lists an Update made now with the viewer at center may build
SortedLists(center, radius) ==
  SortedBy(ChunkMap(DirtyShapes(Terrain), center, radius))

\* C33 as stated: every coordinate whose chunk box meets the sphere of the
\* view radius around the viewer and whose vertex count is neither Empty nor
\* Interior has an entry in the sorted list
C33_BoxInSphereListed ==
  \A center \in WalkCenters : \A pos \in ProbeChunks :
    (AabbDistance2(pos, center) < kChunkSize * kChunkSize /\ Countable(pos))
      => pos \in Enumerated(center, kChunkSize)

\* C33, amended: the sorted list of an Update holds exactly the coordinates
\* of the view window whose chunk centre is closer to the viewer than the
\* view radius and whose vertex count is neither Empty nor Interior,
\* together with the coordinate of every generated chunk at any distance,
\* whose entry carries that chunk; no coordinate appears twice and the
\* scores ascend
C33_SortedList ==
  \A center \in WalkCenters : \A sorts \in SortedLists(center, kChunkSize) :
    /\ {sorts[i].pos : i \in DOMAIN sorts}
         = {pos \in Window(center, kChunkSize) : Countable(pos)}
             \cup {chunks[h].m_pos : h \in m_generatedList}
    /\ \A h \in m_generatedList :
         \E i \in DOMAIN sorts : sorts[i].pos = chunks[h].m_pos /\ sorts[i].c = h
    /\ \A i, j \in DOMAIN sorts :
         i < j => sorts[i].pos # sorts[j].pos /\ sorts[i].score <= sorts[j].score

\* an Update has just returned, and for a viewer who moves on the next list
\* has a dirty coordinate of the window ahead of a generated chunk that
\* lies outside the window, while a countable coordinate whose box meets
\* the sphere has no entry
C33_ListedBeyondWindow ==
  /\ ~aborted
  /\ frame.committed
  /\ m_center \in ViewCenters
  /\ \E center \in WalkCenters :
       /\ \E sorts \in SortedLists(center, kChunkSize) :
            \E i, j \in DOMAIN sorts :
              /\ i < j
              /\ sorts[i].score < sorts[j].score
              /\ sorts[i].c = 0
              /\ sorts[j].c \in m_generatedList
              /\ sorts[j].pos \notin Window(center, kChunkSize)
       /\ \E pos \in ProbeChunks :
            /\ AabbDistance2(pos, center) < kChunkSize * kChunkSize
            /\ Countable(pos)
            /\ pos \notin Enumerated(center, kChunkSize)

(***************************************************************************)
(* Properties of the dirty refresh                                         *)
(***************************************************************************)
\* the generated chunks whose m_geoDirty the dispatch loop has cleared on
\* the way from d.t to u and that are still generated
ClearedIn(d, u) ==
  {h \in d.t.gl \cap u.gl :
     /\ d.t.chunks[h].m_geoDirty
     /\ ~u.chunks[h].m_geoDirty
     /\ u.chunks[h].m_pos = d.t.chunks[h].m_pos}

\* a job slot that took its job for the coordinate on the way from d.t to u
StartedFor(d, u, pos) ==
  {j \in DOMAIN u.jobs : HasChunk(u, u.jobs[j], pos) /\ ~HasChunk(d.t, d.t.jobs[j], pos)}

RefreshStarted(d, u) ==
  \A h \in ClearedIn(d, u) : StartedFor(d, u, u.chunks[h].m_pos) # {}

\* C35: when the dispatch loop of an Update clears m_geoDirty of a generated
\* chunk, the same loop starts a job for the chunk's coordinate: the clear
\* is not followed by an allocation that fails and ends the loop
C35_ClearThenStart ==
  ~aborted =>
    \A center \in WalkCenters :
      \A d \in PreDispatch(center, kChunkSize) :
        ~d.t.aborted => RefreshStarted(d, Dispatch(d.t, d.sorts, 1))

(***************************************************************************)
(* Properties of the grid walk                                             *)
(***************************************************************************)
\* the voxels along axis i of the box spanned by start and start + ray
BoxVoxels(w, i) ==
  LET a == StartOf(w.start, i)
      b == StartOf(w.start, i) + RayOf(i, w.axis, w.sign, w.len)
  IN FloorDiv(IF a < b THEN a ELSE b, 4)..FloorDiv(IF a < b THEN b ELSE a, 4)

\* C34: the grid walk of RaycastFast and of Raycast for a ray of squared
\* length 0.001 or more, with no Surface voxel on its way, returns after
\* finitely many steps: on the axis it steps along the walk is before the
\* out sentinel as long as it runs, so every voxel it examines lies in the
\* box spanned by start and start + ray, and it makes no more steps than
\* the box has voxels along the axis
C34_WalkInsideBox ==
  (result.fn \in WalkFns /\ "walking" \in DOMAIN result) =>
    /\ result.walking =>
         /\ result.step[result.axis] * (result.out[result.axis] - result.pos[result.axis]) > 0
         /\ \A i \in 1..3 : result.pos[i] \in BoxVoxels(result, i)
    /\ result.steps <= Cardinality(BoxVoxels(result, result.axis))

(***************************************************************************)
(* Properties of the chunk records                                         *)
(***************************************************************************)
\* the record is the store entry of its coordinate and in the generated list
Published(h) ==
  /\ h \in m_generatedList
  /\ GetChunk(Terrain, GetIndex(chunks[h].m_pos)) = h

\* the job slots with a job that hold the record
Holders(h) ==
  {j \in DOMAIN m_terrainJobs : HasJob(m_terrainJobs[j]) /\ m_terrainJobs[j].m_chunk = h}

\* C36: between the calls of Update every record allocated from the chunk
\* pool is either the store entry of its coordinate and in the generated
\* list, held by no job slot, or held by exactly one job slot with a job
\* and neither in the store nor in the generated list; the store and the
\* list refer to allocated records only, and the length of the pool is the
\* number of generated chunks plus the number of job slots with a job
C36_RecordOwnedOnce ==
  ~aborted =>
    /\ \A h \in DOMAIN chunks :
         \/ Published(h) /\ Holders(h) = {}
         \/ /\ Cardinality(Holders(h)) = 1
            /\ h \notin m_generatedList
            /\ \A k \in DOMAIN m_chunks3 : m_chunks3[k] # h
    /\ m_generatedList \subseteq DOMAIN chunks
    /\ \A k \in DOMAIN m_chunks3 : m_chunks3[k] \in m_generatedList
    /\ \A j \in DOMAIN m_terrainJobs :
         HasJob(m_terrainJobs[j]) <=> m_terrainJobs[j].m_chunk \in DOMAIN chunks
    /\ m_chunkPool.m_length
         = Cardinality(m_generatedList)
             + Cardinality({j \in DOMAIN m_terrainJobs : HasJob(m_terrainJobs[j])})

\* a regeneration waits for its finish: the pool is full with the
\* generated chunk of a coordinate and the record a job has filled for the
\* same coordinate
C36_TwoRecordsOneCoordinate ==
  /\ ~aborted
  /\ m_chunkPool.m_length = kMaxLoadedChunks
  /\ \E h \in m_generatedList : \E j \in DOMAIN m_terrainJobs :
       /\ IsPendingFinish(m_terrainJobs[j])
       /\ m_terrainJobs[j].m_chunk # h
       /\ chunks[m_terrainJobs[j].m_chunk].m_pos = chunks[h].m_pos

(***************************************************************************)
(* Properties of the job slots                                             *)
(***************************************************************************)
\* the place of a job slot in its cycle
Phase(job) ==
  IF ~job.m_hasJob THEN "Idle" ELSE IF job.m_running THEN "Running" ELSE "PendingFinish"

\* the phase of a slot after StartNew, and after the Do that a pool
\* without threads runs at once
PhaseStarted == IF m_threadPool.size = 0 THEN "PendingFinish" ELSE "Running"

\* what a step may do to job slot j: nothing, StartNew on the slot without
\* a job, the end of Do on the running job, Finish on the job pending
\* finish, or Finish and then StartNew in one Update
SlotStep(old, new) ==
  \/ new = old
  \/ /\ Phase(old) = "Idle"
     /\ Phase(new) = PhaseStarted
     /\ new.m_chunk \in DOMAIN chunks'
  \/ /\ Phase(old) = "Running"
     /\ Phase(new) = "PendingFinish"
     /\ new.m_chunk = old.m_chunk
  \/ /\ Phase(old) = "PendingFinish"
     /\ new = Finish(old)
  \/ /\ Phase(old) = "PendingFinish"
     /\ Phase(new) = PhaseStarted
     /\ new.m_chunk \in DOMAIN chunks'

\* C37: a job slot goes round Idle, Running, PendingFinish and Idle again:
\* a job is started only on a slot without a job, a running job is left
\* alone until its Do has ended, and only a job pending finish is
\* finished; a slot without a job holds no chunk and a slot pending finish
\* holds one and is not running, so the assertions of StartNew and of
\* Finish hold wherever Update calls them, and no assertion fails
C37_JobCycle ==
  [][/\ \A j \in DOMAIN m_terrainJobs : SlotStep(m_terrainJobs[j], m_terrainJobs'[j])
     /\ \A j \in DOMAIN m_terrainJobs' :
          /\ Phase(m_terrainJobs'[j]) = "Idle"
               => \A h \in DOMAIN chunks' : StartNewOk(m_terrainJobs'[j], h)
          /\ Phase(m_terrainJobs'[j]) = "PendingFinish" => FinishOk(m_terrainJobs'[j])
          /\ Phase(m_terrainJobs'[j]) = "Running" <=> j \in m_threadPool'.queued
     /\ ~aborted'
    ]_vars

\* one slot has been round the cycle and is idle again with its chunk
\* generated, while the other slot waits for its finish
C37_RoundTheCycle ==
  /\ ~aborted
  /\ m_generatedList # {}
  /\ \E j, k \in DOMAIN m_terrainJobs :
       /\ Phase(m_terrainJobs[j]) = "Idle"
       /\ Phase(m_terrainJobs[k]) = "PendingFinish"
       /\ FinishOk(m_terrainJobs[k])

(***************************************************************************)
(* Properties of the keys                                                  *)
(***************************************************************************)
\* C39: aeTerrainChunk::GetIndex gives two different chunk coordinates two
\* different keys, as long as the key fits 32 bits
C39_GetIndexInjective ==
  call.fn = "GetIndex" =>
    /\ call.index \div 65536 < 65536 /\ call.otherIndex \div 65536 < 65536
    /\ call.index = call.otherIndex => call.pos = call.other

\* the keys of two coordinates that differ in the sign of a component, and
\* of two that differ in the order of their components, have been asked for
C39_MirroredCoordinates ==
  /\ call.fn = "GetIndex"
  /\ call.pos # call.other
  /\ call.index # call.otherIndex
  /\ \/ call.other = [i \in 1..3 |-> 0 - call.pos[i]]
     \/ call.other = <<call.pos[3], call.pos[1], call.pos[2]>>

(***************************************************************************)
(* Properties of the chunk of a job                                        *)
(***************************************************************************)
\* the record is out of the owner's reach: not in the store, not in the
\* generated list and in no sorted list an Update made now would build
OutOfReach(h) ==
  /\ h \notin m_generatedList
  /\ \A k \in DOMAIN m_chunks3 : m_chunks3[k] # h
  /\ \A center \in WalkCenters :
       \A e \in ChunkMap(DirtyShapes(Terrain), center, kChunkSize) : e.c # h

\* what a step does to the record h of the job in slot j: while the job
\* runs the record stays allocated and unchanged, or the job's Do ends and
\* has written it, and the record of a job pending finish is unchanged as
\* long as the slot is
HeldRecordStep(j, h) ==
  /\ Phase(m_terrainJobs[j]) = "Running" =>
       /\ h \in DOMAIN chunks'
       /\ m_terrainJobs'[j].m_chunk = h
       /\ chunks'[h].m_pos = chunks[h].m_pos
       /\ chunks'[h].m_geoDirty = chunks[h].m_geoDirty
       /\ Phase(m_terrainJobs'[j]) = "Running" =>
            chunks'[h] = chunks[h] /\ m_terrainJobs'[j] = m_terrainJobs[j]
  /\ (/\ Phase(m_terrainJobs[j]) = "PendingFinish"
      /\ m_threadPool.size > 0
      /\ m_terrainJobs'[j] = m_terrainJobs[j]) =>
       h \in DOMAIN chunks' /\ chunks'[h] = chunks[h]

\* C38: from StartNew to the Update that finishes the job, the record the
\* job holds is not in the chunk store, the generated list or the sorted
\* list; no step of the owner frees it or writes it (the steal frees
\* generated chunks only, m_Dirty marks stored chunks only), and what is
\* written to it and to the job's counts is written by the job's Do
C38_JobChunkPrivate ==
  [][\A j \in DOMAIN m_terrainJobs :
       HasJob(m_terrainJobs[j]) =>
         /\ OutOfReach(m_terrainJobs[j].m_chunk)
         /\ HeldRecordStep(j, m_terrainJobs[j].m_chunk)
    ]_vars

\* a job runs on a coordinate whose generated chunk an edit has marked
\* dirty again, with the pool full
C38_RunningBesideDirty ==
  /\ ~aborted
  /\ m_chunkPool.m_length = kMaxLoadedChunks
  /\ \E j \in DOMAIN m_terrainJobs : \E h \in m_generatedList :
       /\ Phase(m_terrainJobs[j]) = "Running"
       /\ chunks[m_terrainJobs[j].m_chunk].m_pos = chunks[h].m_pos
       /\ chunks[h].m_geoDirty
       /\ ~chunks[m_terrainJobs[j].m_chunk].m_geoDirty

====
